---- MODULE Spec2Model ----
(***************************************************************************)
(* A model of the caffeine benchmark corpus generator                      *)
(* (src/generate_corpus.py) and of the benchmark comparator                *)
(* (src/compare.py).                                                       *)
(*                                                                         *)
(* Text is modelled as text: a type descriptor, a literal, a line of a     *)
(* blueprint file are TLA+ strings (sequences of characters), built by the *)
(* same concatenations as the f-strings of the source and taken apart by   *)
(* operators that model str.strip, str.split, slicing and re.search.       *)
(*                                                                         *)
(* The module random is modelled as nondeterminism: every operator that    *)
(* draws returns the SET of results its draws can produce, each draw taken *)
(* from a bounded sample of the range the source draws from, a sample that *)
(* always holds both ends of the range.                                    *)
(*                                                                         *)
(* Floats are fixed point: a float is the integer number of hundredths.    *)
(***************************************************************************)
EXTENDS Integers, Sequences, FiniteSets, TLC

(***************************************************************************)
(* Bounds of the model.                                                    *)
(***************************************************************************)
\* the largest depth random_type is called with (the source stops at depth > 2)
MaxDepth == 3
\* the largest number of entries drawn for a List or a Dict value
MaxCount == 2
\* the most aliases of a blueprint file that are drawn each on its own
MaxAliases == 1
\* the most blueprints of a file whose draws are all explored
MaxItems == 3

\* the most blueprints, organizations and teams of an organization of a rotation:
\* more organizations than ORGS has names, and a blueprint for each and one more
MaxBlueprints == 9

MaxOrgs == 10

MaxTeams == 3

(***************************************************************************)
(* Python's str operations.                                                *)
(***************************************************************************)
Ch(s, i) == SubSeq(s, i, i)

Min(S) == CHOOSE x \in S : \A y \in S : x <= y

Max(S) == CHOOSE x \in S : \A y \in S : x >= y

\* s.startswith(p)
startswith(s, p) == Len(p) <= Len(s) /\ SubSeq(s, 1, Len(p)) = p

\* the positions at which p occurs in s
Occurrences(s, p) ==
    {i \in 1..(Len(s) - Len(p) + 1) : SubSeq(s, i, i + Len(p) - 1) = p}

\* p in s
contains(s, p) == Occurrences(s, p) # {}

\* s.lstrip(chars) and s.rstrip(chars), chars a set of characters
lstrip_chars(s, chars) ==
    LET keep == {i \in 1..Len(s) : Ch(s, i) \notin chars}
    IN  IF keep = {} THEN "" ELSE SubSeq(s, Min(keep), Len(s))

rstrip_chars(s, chars) ==
    LET keep == {i \in 1..Len(s) : Ch(s, i) \notin chars}
    IN  IF keep = {} THEN "" ELSE SubSeq(s, 1, Max(keep))

strip_chars(s, chars) == rstrip_chars(lstrip_chars(s, chars), chars)

\* s.strip(): the texts of the model hold no whitespace but the space
Whitespace == {" "}

strip(s) == strip_chars(s, Whitespace)

\* s.split(sep): the sequence of the pieces between the occurrences of sep
RECURSIVE split(_, _)
split(s, sep) ==
    IF ~contains(s, sep)
    THEN <<s>>
    ELSE LET i == Min(Occurrences(s, sep))
         IN  <<SubSeq(s, 1, i - 1)>> \o split(SubSeq(s, i + Len(sep), Len(s)), sep)

\* s.split(sep, 1)[0]
split_once_head(s, sep) ==
    IF ~contains(s, sep) THEN s ELSE SubSeq(s, 1, Min(Occurrences(s, sep)) - 1)

\* s[a:], a slice that keeps the closing parenthesis
slice_to_end(s, a) == IF Len(s) > a THEN SubSeq(s, a + 1, Len(s)) ELSE ""

\* s[a:-1]
slice_to_last(s, a) == IF Len(s) - 1 > a THEN SubSeq(s, a + 1, Len(s) - 1) ELSE ""

\* sep.join(parts)
RECURSIVE join(_, _)
join(sep, parts) ==
    IF Len(parts) = 0 THEN ""
    ELSE IF Len(parts) = 1 THEN parts[1]
    ELSE parts[1] \o sep \o join(sep, Tail(parts))

\* f'"{v}"'
quote(v) == "\"" \o v \o "\""

(***************************************************************************)
(* Numbers and their text.                                                 *)
(***************************************************************************)
Digits == "0123456789"

DigitSet == {Ch(Digits, i) : i \in 1..10}

DigitVal(c) == (CHOOSE i \in 1..10 : Ch(Digits, i) = c) - 1

\* str(n) of an int n >= 0
RECURSIVE str_int(_)
str_int(n) ==
    IF n < 10 THEN Ch(Digits, n + 1) ELSE str_int(n \div 10) \o Ch(Digits, (n % 10) + 1)

\* the int written by a text of digits ("" is 0)
RECURSIVE digits_val(_)
digits_val(s) ==
    IF Len(s) = 0 THEN 0
    ELSE 10 * digits_val(SubSeq(s, 1, Len(s) - 1)) + DigitVal(Ch(s, Len(s)))

\* str(x) of a float x >= 0 of at most two decimals, x given in hundredths:
\* Python writes the shortest text that reads back, with at least one decimal
str_float(h) ==
    IF h % 10 = 0
    THEN str_int(h \div 100) \o "." \o str_int((h % 100) \div 10)
    ELSE str_int(h \div 100) \o "." \o str_int((h % 100) \div 10) \o str_int(h % 10)

\* whether float(s) succeeds, for a text s of digits and dots (what [\d.]+ matches)
float_ok(s) ==
    /\ Cardinality(Occurrences(s, ".")) <= 1
    /\ \E i \in 1..Len(s) : Ch(s, i) \in DigitSet

\* int(s) in place of float(s): the decimals are lost
float_val_int(s) == 100 * digits_val(split(s, ".")[1])

\* float(s) in hundredths, for float_ok(s) of at most two decimals
float_val(s) ==
    LET parts == split(s, ".")
        frac  == IF Len(parts) = 1 THEN "" ELSE parts[2]
        two   == SubSeq(frac \o "00", 1, 2)
    IN  100 * digits_val(parts[1]) + digits_val(two)

\* int(x) of a float x >= 0 in hundredths
int_of_float(h) == h \div 100

(***************************************************************************)
(* re.search(r'\(\s*([\d.]+)\s*\.\.\s*([\d.]+)\s*\)', t): the leftmost "("  *)
(* from which the pattern matches, each group greedy.  After a group that  *)
(* stops short of its run of digits and dots the next character is a digit *)
(* or a dot, so \s* matches nothing there; the second group is followed by *)
(* spaces and ")", so it is the whole run.                                 *)
(***************************************************************************)
NumChars == DigitSet \cup {"."}

\* the first position >= i that holds no whitespace (Len(t) + 1 when none)
skip_ws(t, i) == Min({j \in i..(Len(t) + 1) : j > Len(t) \/ Ch(t, j) \notin Whitespace})

\* the length of the run of digits and dots that starts at i
run_len(t, i) ==
    Min({j \in i..(Len(t) + 1) : j > Len(t) \/ Ch(t, j) \notin NumChars}) - i

\* whether the pattern matches from the "(" at p with a first group of k characters
range_match_at(t, p, k) ==
    LET a == skip_ws(t, p + 1)
        b == skip_ws(t, a + k)
        c == skip_ws(t, b + 2)
        m == run_len(t, c)
        d == skip_ws(t, c + m)
    IN  /\ k <= run_len(t, a)
        /\ b + 1 <= Len(t)
        /\ SubSeq(t, b, b + 1) = ".."
        /\ m >= 1
        /\ d <= Len(t)
        /\ Ch(t, d) = ")"

\* the match's two groups, <<group(1), group(2)>>, or << >> when nothing matches
range_search(t) ==
    LET starts == {p \in Occurrences(t, "(") :
                      \E k \in 1..Len(t) : range_match_at(t, p, k)}
    IN  IF starts = {} THEN << >>
        ELSE LET p == Min(starts)
                 a == skip_ws(t, p + 1)
                 k == Max({j \in 1..Len(t) : range_match_at(t, p, j)})
                 c == skip_ws(t, skip_ws(t, a + k) + 2)
             IN  <<SubSeq(t, a, a + k - 1), SubSeq(t, c, c + run_len(t, c) - 1)>>

(***************************************************************************)
(* The draws of the module random.  randint(a, b) and uniform(a, b) are    *)
(* sampled at both ends of the range and next to them; random.sample is    *)
(* sampled by the runs of k consecutive elements of the pool, taken        *)
(* cyclically from every position.                                         *)
(***************************************************************************)
\* a draw that can exceed the upper end by one
RandIntOver(a, b) == {x \in {a, a + 1, b, b + 1} : a <= x}

\* random.randint(a, b), a <= b; also round(random.uniform(a, b), 2) in hundredths
RandInt(a, b) == {x \in {a, a + 1, b - 1, b} : a <= x /\ x <= b}

\* the runs of k consecutive elements of pool, taken cyclically from every position
Runs(pool, k) ==
    {[i \in 1..k |-> pool[((r + i - 1) % Len(pool)) + 1]] : r \in 0..(Len(pool) - 1)}

\* random.sample(pool, k), pool a sequence, k <= Len(pool)
Sample(pool, k) == Runs(pool, k)

\* sorted(values), values a sequence of distinct ints
sorted(values) ==
    LET S == {values[i] : i \in 1..Len(values)}
    IN  [i \in 1..Len(values) |->
            CHOOSE x \in S : Cardinality({y \in S : y < x}) = i - 1]

(***************************************************************************)
(* Type generators.  Each returns the set of the types it can return; a    *)
(* type is its text, as in the source, together with the draws that made   *)
(* it (kind, base, svals, ivals, lo, hi, inner), which the source does not *)
(* keep and which only the properties read.                                *)
(***************************************************************************)
Type(kind, base, svals, ivals, lo, hi, inner, text) ==
    [kind |-> kind, base |-> base, svals |-> svals, ivals |-> ivals,
     lo |-> lo, hi |-> hi, inner |-> inner, text |-> text]

SimpleTypes == <<"String", "Integer", "Float", "Boolean">>

\* random.choice(["String", "Integer", "Float", "Boolean"])
simple_type ==
    {Type("Primitive", SimpleTypes[i], << >>, << >>, 0, 0, "", SimpleTypes[i]) : i \in 1..4}

OneOfStrings == <<"active", "inactive", "pending", "archived", "draft", "published">>

\* the values random.sample(range(1, 100), k) is sampled from
OneOfInts == <<1, 7, 42, 99>>

oneof_type(base) ==
    IF base = "String"
    THEN {Type("OneOf", "String", values, << >>, 0, 0, "",
               "String { x | x in { " \o join(", ", [i \in 1..Len(values) |-> quote(values[i])]) \o " } }") :
            values \in UNION {Sample(OneOfStrings, k) : k \in 2..5}}
    ELSE IF base = "Integer"
    THEN {Type("OneOf", "Integer", << >>, sorted(values), 0, 0, "",
               "Integer { x | x in { " \o join(", ", [i \in 1..Len(values) |-> str_int(sorted(values)[i])]) \o " } }") :
            values \in UNION {Sample(OneOfInts, k) : k \in 2..4}}
    ELSE simple_type

\* round(random.uniform(0, 50), 1) and round(random.uniform(60, 100), 1), in hundredths
FloatLows == {0, 1230, 5000}

FloatHighs == {6000, 7890, 10000}

\* random.randint(0, 50) and random.randint(60, 1000)
IntLows == {0, 7, 50}

IntHighs == {60, 1000}

range_type ==
    {Type("Range", "Float", << >>, << >>, low, high, "",
          "Float { x | x in ( " \o str_float(low) \o ".." \o str_float(high) \o " ) }") :
        low \in FloatLows, high \in FloatHighs}
    \cup
    {Type("Range", "Integer", << >>, << >>, low, high, "",
          "Integer { x | x in ( " \o str_int(low) \o ".." \o str_int(high) \o " ) }") :
        low \in IntLows, high \in IntHighs}

RECURSIVE random_type(_, _)
RECURSIVE collection_type(_)
RECURSIVE modifier_type(_)

collection_type(depth) ==
    IF depth > 1 THEN simple_type
    ELSE {Type("List", "", << >>, << >>, 0, 0, inner.text, "List(" \o inner.text \o ")") :
            inner \in random_type(depth + 1, FALSE)}
         \cup
         {Type("Dict", "", << >>, << >>, 0, 0, val_type.text,
               "Dict(String, " \o val_type.text \o ")") :
            val_type \in random_type(depth + 1, FALSE)}

\* the inner type drawn with allow_complex left at its default
modifier_type_nested(depth) ==
    {Type("Optional", "", << >>, << >>, 0, 0, inner.text, "Optional(" \o inner.text \o ")") :
        inner \in random_type(depth + 1, TRUE)}

modifier_type(depth) ==
    {Type("Optional", "", << >>, << >>, 0, 0, inner.text, "Optional(" \o inner.text \o ")") :
        inner \in random_type(depth + 1, FALSE)}
    \cup
    {IF inner.text = "String"
        THEN Type("Defaulted", "", << >>, << >>, 0, 0, "String", "Defaulted(String, \"default\")")
     ELSE IF inner.text = "Integer"
        THEN Type("Defaulted", "", << >>, << >>, 0, 0, "Integer", "Defaulted(Integer, 0)")
     ELSE IF inner.text = "Float"
        THEN Type("Defaulted", "", << >>, << >>, 0, 0, "Float", "Defaulted(Float, 0.0)")
     ELSE IF inner.text = "Boolean"
        THEN Type("Defaulted", "", << >>, << >>, 0, 0, "Boolean", "Defaulted(Boolean, false)")
     ELSE Type("Optional", "", << >>, << >>, 0, 0, inner.text, "Optional(" \o inner.text \o ")") :
        inner \in random_type(depth + 1, FALSE)}

random_type(depth, allow_complex) ==
    IF depth > 2 \/ ~allow_complex
    THEN simple_type
    ELSE simple_type
         \cup oneof_type("String") \cup oneof_type("Integer")
         \cup range_type
         \cup collection_type(depth)
         \cup modifier_type(depth)

(***************************************************************************)
(* value_for_type.  The alias registry is a function from alias names to   *)
(* the text of the underlying type.  The result is the set of the literals *)
(* the call can return; Raised stands for the call ending in an exception. *)
(***************************************************************************)
Raised == "<ValueError>"

\* "".join(random.choices(string.ascii_lowercase, k=random.randint(5, 15)))
StringDraws == {"abcde", "qwertyuiopasdfg"}

\* "".join(random.choices(string.ascii_lowercase, k=8))
UrlDraws == {"abcdefgh"}

\* random.randint(1, 10000)
IntegerDraws == RandInt(1, 10000) \cup {50}

\* round(random.uniform(0.01, 100.0), 2), in hundredths
FloatDraws == RandInt(1, 10000) \cup {50, 1234}

\* round(random.uniform(0.0, 100.0), 2), in hundredths
PercentageDraws == RandInt(0, 10000)

\* random.randint(1, n) for the number of entries of a List or Dict value
Counts(n) == 1..(IF n < MaxCount THEN n ELSE MaxCount)

\* the sequences of count values, count drawn in Counts(n), each value drawn in vals
ValueSeqs(vals, n) == UNION {[1..count -> vals] : count \in Counts(n)}

\* inner = t.split("{")[-1].rstrip("}"), which stops at the space before the brace
oneof_inner_brace(t) ==
    LET pieces == split(t, "{")
    IN  rstrip_chars(pieces[Len(pieces)], {"}"})

\* inner = t.split("{")[-1].rstrip(" }")
oneof_inner(t) ==
    LET pieces == split(t, "{")
    IN  rstrip_chars(pieces[Len(pieces)], {" ", "}"})

\* vals = [v.strip().strip('"') for v in inner.split(",")]
oneof_string_values(t) ==
    LET parts == split(oneof_inner(t), ",")
    IN  [i \in 1..Len(parts) |-> strip_chars(strip(parts[i]), {"\""})]

\* vals = [v.strip() for v in inner.split(",")]
oneof_integer_values(t) ==
    LET parts == split(oneof_inner(t), ",")
    IN  [i \in 1..Len(parts) |-> strip(parts[i])]

RECURSIVE value_for_type(_, _)
value_for_type(type_str, registry) ==
    LET t == strip(type_str)
    IN
    IF startswith(t, "_") /\ t \in DOMAIN registry
    THEN value_for_type(registry[t], registry)
    ELSE IF t = "String"
    THEN {quote(s) : s \in StringDraws}
    ELSE IF t = "Integer"
    THEN {str_int(n) : n \in IntegerDraws}
    ELSE IF t = "Float"
    THEN {str_float(x) : x \in FloatDraws}
    ELSE IF t = "Boolean"
    THEN {"true", "false"}
    ELSE IF t = "URL"
    THEN {quote("https://example.com/" \o s) : s \in UrlDraws}
    ELSE IF t = "Percentage"
    THEN {str_float(x) \o "%" : x \in PercentageDraws}
    ELSE IF startswith(t, "String { x | x in {")
    THEN LET vals == oneof_string_values(t)
         IN  {quote(vals[i]) : i \in 1..Len(vals)}
    ELSE IF startswith(t, "Integer { x | x in {")
    THEN LET vals == oneof_integer_values(t)
         IN  {vals[i] : i \in 1..Len(vals)}
    ELSE IF contains(t, "x | x in (") /\ contains(t, "..")
    THEN LET match == range_search(t)
         IN  IF match = << >> THEN {"50"}
             ELSE IF ~float_ok(match[1]) \/ ~float_ok(match[2]) THEN {Raised}
             ELSE LET low  == float_val(match[1])
                      high == float_val(match[2])
                  IN  IF contains(t, "Float")
                      THEN {str_float(x) : x \in RandInt(low, high) \cup RandInt(high, low)}
                      ELSE IF int_of_float(low) > int_of_float(high) THEN {Raised}
                      ELSE {str_int(n) : n \in RandInt(int_of_float(low), int_of_float(high))}
    ELSE IF startswith(t, "List(")
    THEN LET inner == slice_to_last(t, 5)
             elems == value_for_type(inner, registry)
         IN  {"[" \o join(", ", vals) \o "]" : vals \in ValueSeqs(elems \ {Raised}, 4)}
             \cup (elems \cap {Raised})
    ELSE IF startswith(t, "Dict(String, ")
    THEN LET val_type == slice_to_last(t, 13)
             elems    == value_for_type(val_type, registry)
         IN  {"{ " \o join(", ", [i \in 1..Len(vals) |->
                                     "key_" \o str_int(i - 1) \o ": " \o vals[i]]) \o " }" :
                vals \in ValueSeqs(elems \ {Raised}, 3)}
             \cup (elems \cap {Raised})
    ELSE IF startswith(t, "Optional(")
    THEN value_for_type(slice_to_last(t, 9), registry)
    ELSE IF startswith(t, "Defaulted(")
    THEN value_for_type(split_once_head(slice_to_last(t, 10), ", "), registry)
    ELSE {quote("fallback_value")}

(***************************************************************************)
(* gen_type_aliases(count): the aliases it can declare.  Each result holds *)
(* the declaration lines, the alias names and the registry the call        *)
(* leaves, and (types) the draws behind each alias, for the properties.    *)
(***************************************************************************)
ENVS == <<"production", "staging", "development", "canary">>

NoRegistry == [n \in {} |-> ""]

\* what one alias is declared as: a String OneOf over the environments or a Float range
alias_underlying ==
    {Type("OneOf", "String", values, << >>, 0, 0, "",
          "String { x | x in { " \o join(", ", [i \in 1..Len(values) |-> quote(values[i])]) \o " } }") :
        values \in UNION {Sample(ENVS \o <<"qa", "test", "demo", "perf">>, k) : k \in 2..5}}
    \cup
    {Type("Range", "Float", << >>, << >>, low, high, "",
          "Float { x | x in ( " \o str_float(low) \o ".." \o str_float(high) \o " ) }") :
        low \in FloatLows, high \in FloatHighs}

alias_name(i) == "_type_" \o str_int(i)

\* the registry is left as it was
not_cleared(registry) == registry

\* _alias_registry.clear()
clear(registry) == NoRegistry

\* what the call leaves for the underlying types u it drew
type_aliases(count, registry, u) ==
    LET cleared == clear(registry)
        names   == [i \in 1..count |-> alias_name(i - 1)]
        index(n) == CHOOSE i \in 1..count : names[i] = n
    IN  [aliases     |-> [i \in 1..count |-> names[i] \o " (Type): " \o u[i].text],
         alias_names |-> names,
         registry    |-> [n \in DOMAIN cleared \cup {names[i] : i \in 1..count} |->
                             IF n \in {names[i] : i \in 1..count}
                             THEN u[index(n)].text ELSE cleared[n]],
         types       |-> [n \in {names[i] : i \in 1..count} |-> u[index(n)]]]

gen_type_aliases(count, registry) ==
    {type_aliases(count, registry, u) : u \in [1..count -> alias_underlying]}

(***************************************************************************)
(* Name pools.                                                             *)
(***************************************************************************)
SERVICES ==
    <<"checkout", "auth", "payments", "orders", "inventory", "shipping",
      "notifications", "analytics", "search", "recommendations", "billing",
      "users", "profiles", "catalog", "cart", "gateway", "messaging",
      "scheduler", "monitoring", "logging", "cache", "storage", "cdn",
      "ml_inference", "etl_pipeline", "data_warehouse", "event_bus",
      "rate_limiter", "circuit_breaker", "load_balancer", "dns_resolver",
      "session_manager", "token_service", "audit_log", "webhook_relay",
      "media_processor", "pdf_generator", "email_sender", "sms_gateway",
      "push_notifications", "feature_flags", "ab_testing", "config_server",
      "secrets_manager", "certificate_authority", "vpn_gateway", "firewall",
      "intrusion_detection", "compliance_checker", "backup_service",
      "disaster_recovery">>

ORGS ==
    <<"acme", "globex", "initech", "hooli", "piedpiper", "waystar", "delos",
      "massive_dynamic">>

TEAMS ==
    <<"platform", "payments", "growth", "infrastructure", "mobile", "backend",
      "frontend", "data", "security", "reliability", "devops", "sre", "ml",
      "search", "messaging", "identity", "commerce", "analytics",
      "observability", "networking">>

METRICS ==
    <<"http.requests", "http.latency.p50", "http.latency.p95",
      "http.latency.p99", "http.errors", "grpc.requests", "grpc.latency",
      "grpc.errors", "db.queries", "db.latency", "db.connections", "db.errors",
      "cache.hits", "cache.misses", "cache.latency", "cache.evictions",
      "queue.messages", "queue.latency", "queue.depth", "queue.errors",
      "cpu.utilization", "memory.usage", "disk.io", "network.throughput">>

\* random.choice(METRICS), sampled at both ends of the pool
MetricDraws == {METRICS[1], METRICS[Len(METRICS)]}

(***************************************************************************)
(* re.findall(r'(\w+): (\w+)', s): the matches from left to right, each    *)
(* <<group(1), group(2)>>.  A match starts inside a run of word characters *)
(* that ": " and a word character follow; \w+ takes the run to its end.    *)
(***************************************************************************)
Letters == "abcdefghijklmnopqrstuvwxyzABCDEFGHIJKLMNOPQRSTUVWXYZ"

WordChars == {Ch(Letters, i) : i \in 1..Len(Letters)} \cup DigitSet \cup {"_"}

\* the length of the run of word characters that starts at i
word_len(s, i) ==
    Min({j \in i..(Len(s) + 1) : j > Len(s) \/ Ch(s, j) \notin WordChars}) - i

field_match_at(s, i) ==
    /\ Ch(s, i) \in WordChars
    /\ LET e == i + word_len(s, i)
       IN  /\ e + 2 <= Len(s)
           /\ SubSeq(s, e, e + 1) = ": "
           /\ Ch(s, e + 2) \in WordChars

RECURSIVE findall_fields(_)
findall_fields(s) ==
    LET starts == {i \in 1..Len(s) : field_match_at(s, i)}
    IN  IF starts = {} THEN << >>
        ELSE LET i == Min(starts)
                 e == i + word_len(s, i)
                 g == e + 2 + word_len(s, e + 2)
             IN  <<<<SubSeq(s, i, e - 1), SubSeq(s, e + 2, g - 1)>>>>
                 \o findall_fields(SubSeq(s, g, Len(s)))

\* s.split(sep, 1)[1], for a text s that holds sep
after_first(s, sep) == SubSeq(s, Min(Occurrences(s, sep)) + Len(sep), Len(s))

(***************************************************************************)
(* gen_extendables(req_count, prov_count): the extendables it can declare. *)
(* The draws are sampled by those in which every Requires extendable of    *)
(* one call draws the same run of field types.  declared holds the fields  *)
(* as drawn, <<name, type>>, for the properties.                           *)
(***************************************************************************)
\* num_fields = random.randint(1, 3), then simple_type() for each field
ExtFieldRuns == UNION {Runs(SimpleTypes, n) : n \in RandInt(1, 3)}

req_name(i) == "_req_" \o str_int(i)

prov_name(i) == "_prov_" \o str_int(i)

req_field_name(i, j) == "req_" \o str_int(i) \o "_field_" \o str_int(j)

\* what the call returns when every Requires extendable draws the run of field types
extendables_of(req_count, prov_count, run) ==
    [extendables |->
         [i \in 1..(req_count + prov_count) |->
             IF i <= req_count
             THEN req_name(i - 1) \o " (Requires): { "
                  \o join(", ", [j \in 1..Len(run) |->
                                    req_field_name(i - 1, j - 1) \o ": " \o run[j]])
                  \o " }"
             ELSE prov_name(i - req_count - 1) \o " (Provides): { vendor: \"datadog\" }"],
     req_names  |-> [i \in 1..req_count |-> req_name(i - 1)],
     prov_names |-> [i \in 1..prov_count |-> prov_name(i - 1)],
     declared   |-> [i \in 1..req_count |->
                        [j \in 1..Len(run) |-> <<req_field_name(i - 1, j - 1), run[j]>>]]]

gen_extendables(req_count, prov_count) ==
    {extendables_of(req_count, prov_count, run) : run \in ExtFieldRuns}

(***************************************************************************)
(* gen_blueprint_item: the items it can build.  Each result holds the text *)
(* of the item (item_str), the own fields <<name, type>> (req_field_info)  *)
(* and, for the properties, the extends list as drawn.                     *)
(***************************************************************************)
\* num_req = random.randint(...) by complexity
NumReq(complexity) ==
    IF complexity = "small" THEN RandInt(1, 2)
    ELSE IF complexity = "medium" THEN RandInt(2, 5)
    ELSE IF complexity = "large" THEN RandInt(4, 8)
    ELSE RandInt(6, 12)

\* the extends lists: Provides extendables first, then at most one Requires extendable
ExtendsDraws(req_ext_names, prov_ext_names) ==
    LET least(a, b) == IF a < b THEN a ELSE b
        prov == {<< >>} \cup
                (IF Len(prov_ext_names) = 0 THEN {}
                 ELSE UNION {Sample(prov_ext_names, least(k, Len(prov_ext_names))) :
                                k \in RandInt(1, 2)})
        req  == {<< >>} \cup
                (IF Len(req_ext_names) = 0 THEN {}
                 ELSE UNION {Sample(req_ext_names, least(k, Len(req_ext_names))) :
                                k \in RandInt(1, 1)})
    IN  {p \o r : p \in prov, r \in req}

\* the texts random_type is sampled by when it types a field: one of each shape
FieldTypeSample ==
    <<"String", "Integer", "Float", "Boolean",
      "String { x | x in { \"active\", \"inactive\" } }",
      "Integer { x | x in { 1, 7, 42 } }",
      "Float { x | x in ( 12.3..78.9 ) }",
      "Integer { x | x in ( 0..60 ) }",
      "List(Integer)", "Dict(String, Boolean)",
      "Optional(Float)", "Defaulted(String, \"default\")">>

\* ftype of a field after the first two: the aliases, then the texts of the sample
\* that random_type can return
FieldTypeDraws(alias_names, complexity) ==
    LET types == IF complexity \in {"large", "huge"}
                 THEN random_type(0, TRUE)
                 ELSE random_type(0, complexity # "small")
        returned(text) == \E ty \in types : ty.text = text
    IN  alias_names \o SelectSeq(FieldTypeSample, returned)

\* only the first Provides extendable is looked for
has_first_prov_extends(extends, prov_ext_names) ==
    /\ Len(prov_ext_names) > 0
    /\ \E j \in 1..Len(extends) : extends[j] = prov_ext_names[1]

\* any(e in extends for e in prov_ext_names) if prov_ext_names else False
has_prov_extends(extends, prov_ext_names) ==
    \E i \in 1..Len(prov_ext_names) : \E j \in 1..Len(extends) :
        extends[j] = prov_ext_names[i]

is_simple_string(ftype, registry) ==
    LET ftype_str == strip(ftype)
    IN  \/ ftype_str = "String"
        \/ startswith(ftype_str, "String {")
        \/ /\ startswith(ftype_str, "_")
           /\ ftype_str \in DOMAIN registry
           /\ startswith(registry[ftype_str], "String")

\* the text of one item, from its draws
blueprint_item_str(name, extends, prov_ext_names, req_field_info, metric, registry) ==
    LET extends_str == IF Len(extends) > 0
                       THEN " extends [" \o join(", ", extends) \o "]" ELSE ""
        req_fields  == [i \in 1..Len(req_field_info) |->
                           req_field_info[i][1] \o ": " \o req_field_info[i][2]]
        requires    == IF Len(req_fields) <= 2
                       THEN <<"    Requires { " \o join(", ", req_fields) \o " }">>
                       ELSE <<"    Requires {">>
                            \o [i \in 1..Len(req_fields) |-> "      " \o req_fields[i] \o ","]
                            \o <<"    }">>
        simple      == SelectSeq(req_field_info,
                                 LAMBDA f : is_simple_string(f[2], registry))
        env_param   == IF Len(simple) >= 1 THEN simple[1][1] ELSE ""
        svc_param   == IF Len(simple) >= 2 THEN simple[2][1] ELSE ""
        var(param)  == "$" \o param \o "->" \o param \o "$"
        numerator_query ==
            "sum:" \o metric \o "{"
            \o (IF env_param # "" THEN var(env_param) ELSE "")
            \o (IF svc_param # ""
                THEN (IF env_param # "" THEN "," \o var(svc_param) ELSE var(svc_param))
                ELSE "")
            \o "}"
        denominator_query ==
            "sum:" \o metric \o ".total{"
            \o (IF env_param # "" THEN var(env_param) ELSE "") \o "}"
        provides    == <<"    Provides {">>
                       \o (IF ~has_prov_extends(extends, prov_ext_names)
                           THEN <<"      vendor: \"datadog\",">> ELSE << >>)
                       \o <<"      evaluation: \"numerator / denominator\",",
                            "      indicators: {",
                            "        numerator: \"" \o numerator_query \o "\",",
                            "        denominator: \"" \o denominator_query \o "\"",
                            "      }",
                            "    }">>
    IN  join("\n", <<"  * \"" \o name \o "\"" \o extends_str \o ":">> \o requires \o provides)

\* the types drawn for the fields after the first two, from third to last: the draws
\* are sampled by the runs of the types a field can draw
FieldTypeRuns(num_req, draws) ==
    {[i \in 3..num_req |-> run[i - 2]] : run \in Runs(draws, num_req - 2)}

\* req_field_info: the first two fields plain Strings, then the types drawn
item_fields(name, num_req, ftypes) ==
    [i \in 1..num_req |->
        <<name \o "_param_" \o str_int(i - 1), IF i <= 2 THEN "String" ELSE ftypes[i]>>]

\* the draws of an item: the extends list, the number of own fields, the types of the
\* fields after the first two, and the metric.  Drawn low, random.random() takes the
\* extends and the alias and every other draw is the first of its sample; drawn high,
\* it leaves them and every other draw is the last
ItemDrawsFrom(req_names, prov_names, aliases, complexity, from) ==
    LET first(names) == IF Len(names) = 0 THEN << >> ELSE <<names[1]>>
        low_type  == IF Len(aliases) = 0 THEN "String" ELSE aliases[1]
        high_type == IF complexity = "small" THEN "Boolean"
                     ELSE "Defaulted(String, \"default\")"
        drawn_as(extends, num_req, t, metric) ==
            [extends |-> extends, num_req |-> num_req,
             ftypes |-> [i \in 3..num_req |-> t], metric |-> metric]
    IN  IF from = "low"
        THEN {drawn_as(first(prov_names) \o first(req_names),
                       Min(NumReq(complexity)), low_type, METRICS[1])}
        ELSE IF from = "high"
        THEN {drawn_as(<< >>, Max(NumReq(complexity)), high_type, METRICS[Len(METRICS)])}
        ELSE UNION {
               {[extends |-> extends, num_req |-> num_req, ftypes |-> ftypes,
                 metric |-> metric] :
                   extends \in ExtendsDraws(req_names, prov_names),
                   ftypes  \in FieldTypeRuns(num_req, FieldTypeDraws(aliases, complexity)),
                   metric  \in MetricDraws} :
               num_req \in NumReq(complexity)}

\* the item a call builds from the draws d
item_drawn(name, prov_ext_names, d, registry) ==
    LET req_field_info == item_fields(name, d.num_req, d.ftypes)
    IN  [item_str |-> blueprint_item_str(name, d.extends, prov_ext_names, req_field_info,
                                         d.metric, registry),
         req_field_info |-> req_field_info,
         extends |-> d.extends]

gen_blueprint_item(name, req_ext_names, prov_ext_names, alias_names, complexity, registry) ==
    {item_drawn(name, prov_ext_names, d, registry) :
        d \in ItemDrawsFrom(req_ext_names, prov_ext_names, alias_names, complexity, "any")}

(***************************************************************************)
(* gen_blueprints_file, after the aliases and the extendables.             *)
(***************************************************************************)
\* req_ext_fields: the fields of each Requires extendable, parsed from its text
parse_req_ext_fields(extendables, num_req_ext) ==
    LET text_of(name) == SelectSeq(extendables, LAMBDA e : startswith(e, name \o " "))
    IN  [name \in {n \in {req_name(i) : i \in 0..(num_req_ext - 1)} : Len(text_of(n)) > 0} |->
            findall_fields(after_first(text_of(name)[1], "{"))]

\* bp_name of the blueprint of index i
blueprint_name(i) ==
    SERVICES[(i % Len(SERVICES)) + 1] \o "_slo"
    \o (IF i >= Len(SERVICES) THEN "_" \o str_int(i \div Len(SERVICES)) ELSE "")

\* all_fields: the own fields, then the fields of the Requires extendables the item
\* is found to extend
RECURSIVE extended_fields(_, _, _)
extended_fields(item_str, req_ext_names, req_ext_fields) ==
    IF Len(req_ext_names) = 0 THEN << >>
    ELSE (IF /\ contains(item_str, "extends [")
             /\ contains(item_str, Head(req_ext_names))
             /\ Head(req_ext_names) \in DOMAIN req_ext_fields
          THEN req_ext_fields[Head(req_ext_names)] ELSE << >>)
         \o extended_fields(item_str, Tail(req_ext_names), req_ext_fields)

\* the fields of the extendables ahead of the own fields
all_fields_extended_first(field_info, item_str, req_ext_names, req_ext_fields) ==
    extended_fields(item_str, req_ext_names, req_ext_fields) \o field_info

all_fields(field_info, item_str, req_ext_names, req_ext_fields) ==
    field_info \o extended_fields(item_str, req_ext_names, req_ext_fields)

(***************************************************************************)
(* gen_expectation_file and generate_scale.                                *)
(***************************************************************************)
\* the name without the index
expectation_name_of_blueprint(team, blueprint_name_, i) ==
    team \o "_" \o blueprint_name_

expectation_name(team, blueprint_name_, i) ==
    team \o "_" \o blueprint_name_ \o "_" \o str_int(i)

\* round(random.uniform(95.0, 99.99), 2) in hundredths, sampled at both ends
ThresholdDraws == {9500, 9999}

\* random.choice([7, 30, 90])
WindowDraws == {7, 30, 90}

\* list(dict.fromkeys(names)): the first occurrence of each name, in order
RECURSIVE dedupe(_)
dedupe(names) ==
    IF Len(names) = 0 THEN << >>
    ELSE LET front == dedupe(SubSeq(names, 1, Len(names) - 1))
             last  == names[Len(names)]
         IN  IF \E i \in 1..Len(front) : front[i] = last THEN front
             ELSE Append(front, last)

\* bps_for_team of the team team_i of the organization org_i
\* the share of a team without the one added to the quotient
bps_for_team_floor(bp_names, num_orgs, teams_per_org, org_i, team_i) ==
    LET share   == Len(bp_names) \div (num_orgs * teams_per_org)
        cut     == IF share > 1 THEN share ELSE 1
        first   == SubSeq(bp_names, 1, IF cut < Len(bp_names) THEN cut ELSE Len(bp_names))
        offset  == (org_i * teams_per_org + team_i) * Len(first)
        rotated == [j \in 1..Len(first) |->
                       bp_names[((offset + j - 1) % Len(bp_names)) + 1]]
    IN  dedupe(rotated)

bps_for_team(bp_names, num_orgs, teams_per_org, org_i, team_i) ==
    LET share   == (Len(bp_names) \div (num_orgs * teams_per_org)) + 1
        cut     == IF share > 1 THEN share ELSE 1
        first   == SubSeq(bp_names, 1, IF cut < Len(bp_names) THEN cut ELSE Len(bp_names))
        offset  == (org_i * teams_per_org + team_i) * Len(first)
        rotated == [j \in 1..Len(first) |->
                       bp_names[((offset + j - 1) % Len(bp_names)) + 1]]
    IN  dedupe(rotated)

\* one is added for each blueprint of a team
add_one(total_expectations, exp_per) == total_expectations + 1

\* total_expectations += exp_per
add_expectations(total_expectations, exp_per) == total_expectations + exp_per

(***************************************************************************)
(* The state.                                                              *)
(*   pc             where the program is                                   *)
(*   registry       _alias_registry                                        *)
(*   alias_types    the draws behind each registered alias                 *)
(*   call           the arguments <<depth, allow_complex>> of random_type  *)
(*   drawn          the type last generated or read, with its draws        *)
(*   ftype          the text of that type, the argument of value_for_type  *)
(*   val            the literal value_for_type returned                    *)
(* and, of a generation pass (generate_scale):                             *)
(*   profile        scale_name and config                                  *)
(*   stream         the part of the random stream the pass is run with    *)
(*   alias_names, extendables, req_ext_names, prov_ext_names,              *)
(*   req_ext_fields, blueprint_names, blueprint_fields                     *)
(*                  the locals of gen_blueprints_file                      *)
(*   bp_lines       the items appended to bp_lines after its heading       *)
(*   declared       the fields each Requires extendable was given          *)
(*   own_fields     req_field_info of each blueprint                       *)
(*   extends_of     the extends list of each blueprint                     *)
(*   org_i, team_i  the loop indices of generate_scale                     *)
(*   team_bps       bps_for_team                                           *)
(*   bp_k           the position in team_bps of the blueprint in hand      *)
(*   inst           the index i of the expectation in hand                 *)
(*   fld            the position in fields of the next field to provide    *)
(*   exp_name       the name of the expectation in hand                    *)
(*   provided       the field names written for it so far                  *)
(*   standard       its threshold and window_in_days, once written         *)
(*   written        the names of the expectations of the team file so far  *)
(*   total_expectations                                                    *)
(*   emitted        the number of expectations completed in the pass       *)
(*   exp_files      the expectation files on disk: for the <<org, team>>   *)
(*                  of each slos.caffeine, its parts in order, a part the  *)
(*                  blueprint, the team and the number of the expectations *)
(*                  gen_expectation_file wrote for it                      *)
(*   stats          the dictionary generate_scale returns                  *)
(* and, of generate_expectation_scaling:                                   *)
(*   target_i       the position in the targets of target_count            *)
(*   mode           the mode the team file of the last round was opened in *)
(*   results        target, actual_expectations and expectation_files of   *)
(*                  the targets completed                                  *)
(* and, of the passes of main:                                             *)
(*   left_over      _alias_registry as it was when the pass began          *)
(*   assigned       the blueprints bps_for_team has held in the pass       *)
(* and, of compare.py:                                                     *)
(*   baseline_file, current_file                                           *)
(*                  what is found at baseline_path and at current_path     *)
(*   threshold_pct  the threshold                                          *)
(*   passed         what compare returned or raised                        *)
(*   exit_status    the exit status of the process                         *)
(***************************************************************************)
VARIABLES pc, registry, alias_types, call, drawn, ftype, val,
          profile, stream, alias_names, extendables, req_ext_names, prov_ext_names,
          req_ext_fields, blueprint_names, blueprint_fields, bp_lines,
          declared, own_fields, extends_of,
          org_i, team_i, team_bps, bp_k, inst, fld, exp_name, provided,
          standard, written, total_expectations, emitted, exp_files, stats,
          target_i, mode, results, left_over, assigned,
          baseline_file, current_file, threshold_pct, passed, exit_status

fileVars == <<profile, stream, alias_names, extendables, req_ext_names, prov_ext_names,
              req_ext_fields, blueprint_names, blueprint_fields, bp_lines,
              declared, own_fields, extends_of>>

loopVars == <<org_i, team_i, team_bps, bp_k, inst, fld, exp_name, provided,
              standard, written, total_expectations, emitted, exp_files, stats>>

scalingVars == <<target_i, mode, results>>

compareVars == <<baseline_file, current_file, threshold_pct, passed, exit_status>>

vars == <<pc, registry, alias_types, call, drawn, ftype, val, fileVars, loopVars, scalingVars,
          left_over, assigned, compareVars>>

NoType == Type("None", "", << >>, << >>, 0, 0, "", "")

\* compare.py has not run
NoCompare ==
    /\ baseline_file = [kind |-> "missing", rows |-> << >>]
    /\ current_file = [kind |-> "missing", rows |-> << >>]
    /\ threshold_pct = 0
    /\ passed = [kind |-> "none", exception |-> ""]
    /\ exit_status = -1

NoStats == [blueprints |-> 0, expectations_total |-> 0, expectation_files |-> 0]

Config(scale, num_blueprints, complexity, num_aliases, num_req_ext, num_prov_ext, num_orgs, teams_per_org, exp_per) ==
    [scale |-> scale, num_blueprints |-> num_blueprints, complexity |-> complexity,
     num_aliases |-> num_aliases, num_req_ext |-> num_req_ext,
     num_prov_ext |-> num_prov_ext, num_orgs |-> num_orgs,
     teams_per_org |-> teams_per_org,
     expectations_per_team_blueprint |-> exp_per]

SCALES ==
    [small  |-> Config("small", 2, "small", 0, 0, 0, 1, 1, 2),
     medium |-> Config("medium", 5, "medium", 2, 1, 1, 2, 2, 3),
     large  |-> Config("large", 20, "large", 5, 3, 3, 3, 4, 5),
     huge   |-> Config("huge", 50, "huge", 10, 5, 5, 5, 5, 8),
     insane |-> Config("insane", 50, "huge", 10, 5, 5, 8, 10, 15),
     absurd |-> Config("absurd", 50, "huge", 10, 5, 5, 8, 20, 25)]

EXPECTATION_SCALES == <<10, 50, 100, 500, 1000, 2500, 5000>>

\* file_content_parts: gen_expectation_file(bp_name, fields, count, org, team) for each
\* blueprint in turn, a part kept as the blueprint, the team and the count
team_parts(team, bps, counts) ==
    [k \in 1..Len(counts) |-> [blueprint |-> bps[k], team |-> team, count |-> counts[k]]]

\* with open(exp_file, file_mode) as f: f.write(...): "w" replaces what the file held,
\* "a" adds to it
write_file(files, path, file_mode, parts) ==
    [p \in DOMAIN files \cup {path} |->
        IF p # path THEN files[p]
        ELSE IF file_mode = "a" THEN files[p] \o parts
        ELSE parts]

\* the streams a pass is run with: every draw of the samples for a blueprint file of
\* up to MaxItems blueprints and MaxAliases aliases; for a larger file the stream in
\* which every draw of the file and of the rounds is the first of its sample and the
\* stream in which every draw is the last
StreamsOf(config) ==
    IF config.num_blueprints <= MaxItems /\ config.num_aliases <= MaxAliases
    THEN {"any"}
    ELSE {"low", "high"}

\* a draw from the integers S
Draw(S, from) ==
    IF from = "low" THEN {Min(S)} ELSE IF from = "high" THEN {Max(S)} ELSE S

\* random.sample(pool, k) as drawn from the stream: the run of k elements of pool
\* taken cyclically from the first position, from the last, or from any
SampleFrom(pool, k, from) ==
    LET run_at(r) == [i \in 1..k |-> pool[((r + i - 1) % Len(pool)) + 1]]
    IN  IF from = "low" THEN {run_at(0)}
        ELSE IF from = "high" THEN {run_at(Len(pool) - 1)}
        ELSE Sample(pool, k)

\* the underlying types gen_type_aliases(count) draws: random.random() < 0.5 makes an
\* alias a String OneOf; the draws are sampled by one type of each kind, and more than
\* MaxAliases aliases repeat the draws of the first
AliasDraws(count, from) ==
    LET sampled  == {t \in alias_underlying :
                        t.text \in {"String { x | x in { \"production\", \"staging\" } }",
                                     "Float { x | x in ( 12.3..78.9 ) }"}}
        of(kind) == CHOOSE t \in sampled : t.kind = kind
    IN  IF from = "low" THEN {[i \in 1..count |-> of("OneOf")]}
        ELSE IF from = "high" THEN {[i \in 1..count |-> of("Range")]}
        ELSE {[i \in 1..count |-> v[((i - 1) % MaxAliases) + 1]] :
                 v \in [1..MaxAliases -> sampled]}

\* the run of field types gen_extendables draws for its Requires extendables
ExtRunDraws(from) ==
    IF from = "any" THEN ExtFieldRuns
    ELSE UNION {SampleFrom(SimpleTypes, n, from) : n \in Draw(RandInt(1, 3), from)}

\* the locals of a pass before the pass begins
BeforePass ==
    /\ alias_names = << >>
    /\ extendables = << >>
    /\ req_ext_names = << >>
    /\ prov_ext_names = << >>
    /\ req_ext_fields = [n \in {} |-> << >>]
    /\ blueprint_names = << >>
    /\ blueprint_fields = [n \in {} |-> << >>]
    /\ bp_lines = << >>
    /\ declared = << >>
    /\ own_fields = [n \in {} |-> << >>]
    /\ extends_of = [n \in {} |-> << >>]
    /\ org_i = 0
    /\ team_i = 0
    /\ team_bps = << >>
    /\ bp_k = 0
    /\ inst = 0
    /\ fld = 0
    /\ exp_name = ""
    /\ provided = << >>
    /\ standard = << >>
    /\ written = << >>
    /\ total_expectations = 0
    /\ emitted = 0
    /\ exp_files = [path \in {} |-> << >>]
    /\ stats = NoStats
    /\ target_i = 0
    /\ mode = ""
    /\ results = << >>

(***************************************************************************)
(* The type grammar and the value synthesizer, one call at a time.         *)
(***************************************************************************)
\* type texts that reach value_for_type from outside the generator
ExternalTypes ==
    {"", "Foo", "string", "_type_9", "List(", "List(String", "Dict(String, ",
     "Optional(String", "Defaulted(String", "Defaulted(",
     "Integer { x | x in ( a..b ) }", "Integer { x | x in ( ..5 ) }",
     "Integer { x | x in ( 60..7 ) }", "Float { x | x in ( 60.0..7.5 ) }",
     "Integer { x | x in ( 1.2.3..5 ) }", "Float { x | x in ( 5.0.. ) }",
     "List(Integer { x | x in ( 9..1 ) })"}

InitType ==
    /\ pc = "start"
    /\ registry = NoRegistry
    /\ alias_types = [n \in {} |-> NoType]
    /\ call = <<0, TRUE>>
    /\ drawn = NoType
    /\ ftype = ""
    /\ val = ""
    /\ left_over = NoRegistry
    /\ assigned = {}
    /\ NoCompare
    /\ profile = Config("", 0, "", 0, 0, 0, 0, 0, 0)
    /\ stream = "any"
    /\ BeforePass

\* a call of random_type(depth, allow_complex)
RandomType ==
    /\ pc = "start"
    /\ \E depth \in 0..MaxDepth, allow_complex \in BOOLEAN :
         \E ty \in random_type(depth, allow_complex) :
            /\ call' = <<depth, allow_complex>>
            /\ drawn' = ty
            /\ ftype' = ty.text
    /\ pc' = "typed"
    /\ UNCHANGED scalingVars
    /\ UNCHANGED <<left_over, assigned, compareVars>>
    /\ UNCHANGED <<registry, alias_types, val, fileVars, loopVars>>

\* a call of gen_type_aliases(count)
GenTypeAliases ==
    /\ pc = "start"
    /\ \E count \in 1..MaxAliases :
         \E r \in gen_type_aliases(count, registry) :
            /\ registry' = r.registry
            /\ alias_types' = r.types
    /\ pc' = "aliased"
    /\ UNCHANGED scalingVars
    /\ UNCHANGED <<left_over, assigned, compareVars>>
    /\ UNCHANGED <<call, drawn, ftype, val, fileVars, loopVars>>

\* a field is given an alias as its type: random.choice(alias_names)
AliasType ==
    /\ pc = "aliased"
    /\ \E name \in DOMAIN alias_types :
         /\ drawn' = Type("Alias", "", << >>, << >>, 0, 0, name, name)
         /\ ftype' = name
    /\ pc' = "typed"
    /\ UNCHANGED scalingVars
    /\ UNCHANGED <<left_over, assigned, compareVars>>
    /\ UNCHANGED <<registry, alias_types, call, val, fileVars, loopVars>>

\* a type text the generator did not construct
ExternalType ==
    /\ pc = "start"
    /\ \E text \in ExternalTypes :
         /\ drawn' = Type("External", "", << >>, << >>, 0, 0, "", text)
         /\ ftype' = text
    /\ pc' = "typed"
    /\ UNCHANGED scalingVars
    /\ UNCHANGED <<left_over, assigned, compareVars>>
    /\ UNCHANGED <<registry, alias_types, call, val, fileVars, loopVars>>

\* a call of value_for_type(ftype)
ValueForType ==
    /\ pc = "typed"
    /\ \E v \in value_for_type(ftype, registry) : val' = v
    /\ pc' = "valued"
    /\ UNCHANGED scalingVars
    /\ UNCHANGED <<left_over, assigned, compareVars>>
    /\ UNCHANGED <<registry, alias_types, call, drawn, ftype, fileVars, loopVars>>

NextType == RandomType \/ GenTypeAliases \/ AliasType \/ ExternalType \/ ValueForType

SpecType == InitType /\ [][NextType]_vars

(***************************************************************************)
(* A generation pass: generate_scale(scale_name, config).                  *)
(***************************************************************************)
\* the scales "small" to "huge" of SCALES, and configurations that reach, with every
\* draw explored, the rotation of the blueprints over the teams, the aliases, the
\* extendables of both kinds, more than ten Requires extendables, more organizations
\* than ORGS has names, and the items of the complexities "large" and "huge"
Profiles ==
    {SCALES[scale_name] : scale_name \in {"small", "medium", "large", "huge"}} \cup
    {Config("rotation", 3, "small", 0, 0, 0, 1, 2, 1),
     Config("typed", 1, "medium", MaxAliases, 0, 0, 1, 1, 1),
     Config("extended", 1, "small", 0, 1, 2, 1, 1, 1),
     Config("many_extendables", 1, "small", 0, 11, 0, 1, 1, 1),
     Config("wrapped", 1, "small", 0, 0, 0, 9, 1, 1),
     Config("large_item", 1, "large", 0, 0, 0, 1, 1, 1),
     Config("huge_item", 1, "huge", 0, 0, 0, 1, 1, 1)}

InitGen ==
    /\ pc = "begin"
    /\ registry = NoRegistry
    /\ alias_types = [n \in {} |-> NoType]
    /\ call = <<0, TRUE>>
    /\ drawn = NoType
    /\ ftype = ""
    /\ val = ""
    /\ left_over = NoRegistry
    /\ assigned = {}
    /\ NoCompare
    /\ profile \in Profiles
    /\ stream \in StreamsOf(profile)
    /\ BeforePass

\* gen_blueprints_file up to its loop over the blueprints: the aliases, the
\* extendables, and the fields read back from the text of the extendables
GenBlueprintsFile ==
    /\ pc = "begin"
    /\ \E u \in AliasDraws(profile.num_aliases, stream), run \in ExtRunDraws(stream) :
       LET a == type_aliases(profile.num_aliases, registry, u)
           e == extendables_of(profile.num_req_ext, profile.num_prov_ext, run)
       IN
         /\ registry' = a.registry
         /\ alias_types' = a.types
         /\ alias_names' = a.alias_names
         /\ extendables' = e.extendables
         /\ req_ext_names' = e.req_names
         /\ prov_ext_names' = e.prov_names
         /\ declared' = e.declared
         /\ req_ext_fields' = parse_req_ext_fields(e.extendables, profile.num_req_ext)
    /\ pc' = "blueprints"
    /\ UNCHANGED scalingVars
    /\ UNCHANGED <<left_over, assigned, compareVars>>
    /\ UNCHANGED <<call, drawn, ftype, val, profile, stream, blueprint_names, blueprint_fields,
                   bp_lines, own_fields, extends_of, loopVars>>

\* one turn of the loop over the blueprints
GenBlueprintItem ==
    /\ pc = "blueprints"
    /\ Len(blueprint_names) < profile.num_blueprints
    /\ LET bp_name == blueprint_name(Len(blueprint_names))
           put(f, v) == [n \in DOMAIN f \cup {bp_name} |-> IF n = bp_name THEN v ELSE f[n]]
       IN  \E d \in ItemDrawsFrom(req_ext_names, prov_ext_names, alias_names,
                                  profile.complexity, stream) :
           LET r == item_drawn(bp_name, prov_ext_names, d, registry)
           IN
              /\ blueprint_names' = Append(blueprint_names, bp_name)
              /\ bp_lines' = Append(bp_lines, r.item_str)
              /\ blueprint_fields' =
                     put(blueprint_fields,
                         all_fields(r.req_field_info, r.item_str, req_ext_names, req_ext_fields))
              /\ own_fields' = put(own_fields, r.req_field_info)
              /\ extends_of' = put(extends_of, r.extends)
    /\ UNCHANGED scalingVars
    /\ UNCHANGED <<left_over, assigned, compareVars>>
    /\ UNCHANGED <<pc, registry, alias_types, call, drawn, ftype, val, profile, stream,
                   alias_names,
                   extendables, req_ext_names, prov_ext_names, req_ext_fields, declared,
                   loopVars>>

\* the blueprint file is complete and written; the loops over the teams begin
WriteBlueprints ==
    /\ pc = "blueprints"
    /\ profile.scale # "exp_scale"
    /\ Len(blueprint_names) = profile.num_blueprints
    /\ pc' = "team"
    /\ UNCHANGED scalingVars
    /\ UNCHANGED <<left_over, assigned, compareVars>>
    /\ UNCHANGED <<registry, alias_types, call, drawn, ftype, val, fileVars, loopVars>>

org_name == ORGS[(org_i % Len(ORGS)) + 1]

team_name == TEAMS[(team_i % Len(TEAMS)) + 1]

\* the head of the loop body of a team: its blueprints, and the first expectation
StartTeam ==
    /\ pc = "team"
    /\ org_i < profile.num_orgs
    /\ LET bps == bps_for_team(blueprint_names, profile.num_orgs, profile.teams_per_org,
                               org_i, team_i)
       IN  /\ team_bps' = bps
           /\ assigned' = assigned \cup {bps[k] : k \in 1..Len(bps)}
           /\ exp_name' = expectation_name(team_name, bps[1], 0)
    /\ bp_k' = 1
    /\ inst' = 0
    /\ fld' = 1
    /\ provided' = << >>
    /\ standard' = << >>
    /\ written' = << >>
    /\ pc' = "fields"
    /\ UNCHANGED scalingVars
    /\ UNCHANGED <<left_over, compareVars>>
    /\ UNCHANGED <<registry, alias_types, call, drawn, ftype, val, fileVars, org_i, team_i,
                   total_expectations, emitted, exp_files, stats>>

\* val = value_for_type(ftype) for the next field of the expectation in hand
ProvideField ==
    /\ pc = "fields"
    /\ LET fields == blueprint_fields[team_bps[bp_k]]
       IN  /\ fld <= Len(fields)
           /\ ftype' = fields[fld][2]
           /\ \E v \in value_for_type(fields[fld][2], registry) :
                /\ val' = v
                /\ IF v = Raised
                   THEN pc' = "raised" /\ UNCHANGED <<provided, fld>>
                   ELSE /\ provided' = Append(provided, fields[fld][1])
                        /\ fld' = fld + 1
                        /\ pc' = "fields"
    /\ UNCHANGED scalingVars
    /\ UNCHANGED <<left_over, assigned, compareVars>>
    /\ UNCHANGED <<registry, alias_types, call, drawn, fileVars, org_i, team_i, team_bps,
                   bp_k, inst, exp_name, standard, written, total_expectations, emitted,
                   exp_files, stats>>

\* the threshold and the window of the expectation in hand, which completes it
StandardFields ==
    /\ pc = "fields"
    /\ fld > Len(blueprint_fields[team_bps[bp_k]])
    /\ \E threshold \in ThresholdDraws, window \in WindowDraws :
         standard' = <<str_float(threshold), str_int(window)>>
    /\ written' = Append(written, exp_name)
    /\ emitted' = emitted + 1
    /\ pc' = "emitted"
    /\ UNCHANGED scalingVars
    /\ UNCHANGED <<left_over, assigned, compareVars>>
    /\ UNCHANGED <<registry, alias_types, call, drawn, ftype, val, fileVars, org_i, team_i,
                   team_bps, bp_k, inst, fld, exp_name, provided, total_expectations,
                   exp_files, stats>>

\* on to the next expectation of the blueprint, the next blueprint of the team, or,
\* with the file of the team written, the next team
Advance ==
    /\ pc = "emitted"
    /\ profile.scale # "exp_scale"
    /\ LET exp_per == profile.expectations_per_team_blueprint
       IN  \/ /\ inst + 1 < exp_per
              /\ inst' = inst + 1
              /\ exp_name' = expectation_name(team_name, team_bps[bp_k], inst + 1)
              /\ fld' = 1
              /\ provided' = << >>
              /\ standard' = << >>
              /\ pc' = "fields"
              /\ UNCHANGED <<org_i, team_i, team_bps, bp_k, written, total_expectations,
                             exp_files>>
           \/ /\ inst + 1 >= exp_per
              /\ bp_k < Len(team_bps)
              /\ total_expectations' = add_expectations(total_expectations, exp_per)
              /\ bp_k' = bp_k + 1
              /\ inst' = 0
              /\ exp_name' = expectation_name(team_name, team_bps[bp_k + 1], 0)
              /\ fld' = 1
              /\ provided' = << >>
              /\ standard' = << >>
              /\ pc' = "fields"
              /\ UNCHANGED <<org_i, team_i, team_bps, written, exp_files>>
           \/ /\ inst + 1 >= exp_per
              /\ bp_k >= Len(team_bps)
              /\ total_expectations' = add_expectations(total_expectations, exp_per)
              /\ exp_files' = write_file(exp_files, <<org_name, team_name>>, "w",
                                         team_parts(team_name, team_bps,
                                                    [k \in 1..Len(team_bps) |-> exp_per]))
              /\ IF team_i + 1 < profile.teams_per_org
                 THEN team_i' = team_i + 1 /\ org_i' = org_i
                 ELSE team_i' = 0 /\ org_i' = org_i + 1
              /\ pc' = "team"
              /\ UNCHANGED <<team_bps, bp_k, inst, fld, exp_name, provided, standard, written>>
    /\ UNCHANGED scalingVars
    /\ UNCHANGED <<left_over, assigned, compareVars>>
    /\ UNCHANGED <<registry, alias_types, call, drawn, ftype, val, fileVars, emitted, stats>>

\* the loops are over: the statistics generate_scale returns
ReturnStats ==
    /\ pc = "team"
    /\ org_i >= profile.num_orgs
    /\ stats' = [blueprints |-> profile.num_blueprints,
                 expectations_total |-> total_expectations,
                 expectation_files |-> Cardinality(DOMAIN exp_files)]
    /\ pc' = "done"
    /\ UNCHANGED scalingVars
    /\ UNCHANGED <<left_over, assigned, compareVars>>
    /\ UNCHANGED <<registry, alias_types, call, drawn, ftype, val, fileVars, org_i, team_i,
                   team_bps, bp_k, inst, fld, exp_name, provided, standard, written,
                   total_expectations, emitted, exp_files>>

NextGen ==
    \/ GenBlueprintsFile
    \/ GenBlueprintItem
    \/ WriteBlueprints
    \/ StartTeam
    \/ ProvideField
    \/ StandardFields
    \/ Advance
    \/ ReturnStats

SpecGen == InitGen /\ [][NextGen]_vars

(***************************************************************************)
(* The rotation of generate_scale alone: the loops over the organizations  *)
(* and their teams for a list of blueprint names, a team file written part *)
(* by part without the fields of its expectations.                         *)
(***************************************************************************)
InitRotation ==
    /\ pc = "team"
    /\ registry = NoRegistry
    /\ alias_types = [n \in {} |-> NoType]
    /\ call = <<0, TRUE>>
    /\ drawn = NoType
    /\ ftype = ""
    /\ val = ""
    /\ left_over = NoRegistry
    /\ assigned = {}
    /\ NoCompare
    /\ stream = "any"
    /\ \E n \in 1..MaxBlueprints, orgs \in 1..MaxOrgs,
          teams \in 1..MaxTeams \cup {Len(TEAMS) + 1}, exp_per \in 0..1 :
          /\ profile = Config("rotation", n, "small", 0, 0, 0, orgs, teams, exp_per)
          /\ blueprint_names = [i \in 1..n |-> blueprint_name(i - 1)]
    /\ alias_names = << >>
    /\ extendables = << >>
    /\ req_ext_names = << >>
    /\ prov_ext_names = << >>
    /\ req_ext_fields = [n \in {} |-> << >>]
    /\ blueprint_fields = [n \in {} |-> << >>]
    /\ bp_lines = << >>
    /\ declared = << >>
    /\ own_fields = [n \in {} |-> << >>]
    /\ extends_of = [n \in {} |-> << >>]
    /\ org_i = 0
    /\ team_i = 0
    /\ team_bps = << >>
    /\ bp_k = 0
    /\ inst = 0
    /\ fld = 0
    /\ exp_name = ""
    /\ provided = << >>
    /\ standard = << >>
    /\ written = << >>
    /\ total_expectations = 0
    /\ emitted = 0
    /\ exp_files = [path \in {} |-> << >>]
    /\ stats = NoStats
    /\ target_i = 0
    /\ mode = ""
    /\ results = << >>

\* the file of the team is written and the loops go on to the next team
WriteTeamFile ==
    /\ pc = "fields"
    /\ total_expectations' =
          total_expectations + Len(team_bps) * profile.expectations_per_team_blueprint
    /\ emitted' = emitted + Len(team_bps) * profile.expectations_per_team_blueprint
    /\ exp_files' = write_file(exp_files, <<org_name, team_name>>, "w",
                               team_parts(team_name, team_bps,
                                          [k \in 1..Len(team_bps) |->
                                              profile.expectations_per_team_blueprint]))
    /\ IF team_i + 1 < profile.teams_per_org
       THEN team_i' = team_i + 1 /\ org_i' = org_i
       ELSE team_i' = 0 /\ org_i' = org_i + 1
    /\ pc' = "team"
    /\ UNCHANGED scalingVars
    /\ UNCHANGED <<left_over, assigned, compareVars>>
    /\ UNCHANGED <<registry, alias_types, call, drawn, ftype, val, fileVars, team_bps, bp_k,
                   inst, fld, exp_name, provided, standard, written, stats>>

NextRotation == StartTeam \/ WriteTeamFile \/ ReturnStats

SpecRotation == InitRotation /\ [][NextRotation]_vars

(***************************************************************************)
(* generate_expectation_scaling, and passes one after another as in main.  *)
(* The blueprint file of the scaling pass is built by the steps            *)
(* GenBlueprintsFile and GenBlueprintItem above from SCALES["large"].  A   *)
(* turn of the while loop is one step: of the expectations it writes the   *)
(* state keeps the names, and the values of their fields only in whether   *)
(* value_for_type can return them.                                         *)
(***************************************************************************)
ScalingConfig == [SCALES["large"] EXCEPT !.scale = "exp_scale"]

\* f"{team_name}_{org_i}_{team_i}", the team the expectations are named after
scaling_team == team_name \o "_" \o str_int(org_i) \o "_" \o str_int(team_i)

\* min(random.randint(1, 5), most)
DrawUpTo(most) == {IF k < most THEN k ELSE most : k \in RandInt(1, 5)}

\* exp_count of each of k chosen blueprints in turn, until none remains to be written
RECURSIVE exp_counts(_, _, _)
exp_counts(k, remaining, from) ==
    IF k = 0 \/ remaining <= 0 THEN {<< >>}
    ELSE UNION {{<<count>> \o rest : rest \in exp_counts(k - 1, remaining - count, from)} :
                   count \in Draw(DrawUpTo(remaining), from)}

RECURSIVE sum(_)
sum(counts) == IF counts = << >> THEN 0 ELSE counts[1] + sum(Tail(counts))

\* the names of file_parts, part after part: gen_expectation_file names the exp_count
\* expectations of a blueprint after the team, the blueprint and i
RECURSIVE file_parts(_, _, _)
file_parts(team, bps, counts) ==
    IF counts = << >> THEN << >>
    ELSE [i \in 1..counts[1] |-> expectation_name(team, bps[1], i - 1)]
         \o file_parts(team, Tail(bps), Tail(counts))

\* the outcomes value_for_type has for the fields of the blueprints written in a round
field_values(bps, counts, fields, types) ==
    UNION {{value_for_type(fields[bps[k]][j][2], types) : j \in 1..Len(fields[bps[k]])} :
              k \in 1..Len(counts)}

\* the blueprint file is built; the loop over the targets begins
StartScaling ==
    /\ pc = "blueprints"
    /\ profile.scale = "exp_scale"
    /\ Len(blueprint_names) = profile.num_blueprints
    /\ target_i' = 1
    /\ results' = << >>
    /\ pc' = "target"
    /\ UNCHANGED <<left_over, assigned, compareVars>>
    /\ UNCHANGED <<registry, alias_types, call, drawn, ftype, val, fileVars, loopVars,
                   mode>>

\* the head of the loop body of a target: a new directory, total = 0
StartTarget ==
    /\ pc = "target"
    /\ target_i <= Len(EXPECTATION_SCALES)
    /\ total_expectations' = 0
    /\ org_i' = 0
    /\ team_i' = 0
    /\ exp_files' = [path \in {} |-> << >>]
    /\ pc' = "round"
    /\ UNCHANGED <<left_over, assigned, compareVars>>
    /\ UNCHANGED <<registry, alias_types, call, drawn, ftype, val, fileVars, team_bps, bp_k,
                   inst, fld, exp_name, provided, standard, written, emitted, stats,
                   scalingVars>>

\* a turn of the while loop: the blueprints chosen for the team, the expectations of
\* each while the target is not reached, the file of the team written or appended
\* to, and the next team
ScalingRound ==
    /\ pc = "round"
    /\ total_expectations < EXPECTATION_SCALES[target_i]
    /\ \E num_bps \in Draw(DrawUpTo(Len(blueprint_names)), stream) :
       \E chosen_bps \in SampleFrom(blueprint_names, num_bps, stream) :
       \E counts \in exp_counts(num_bps, EXPECTATION_SCALES[target_i] - total_expectations,
                                stream) :
       LET values == field_values(chosen_bps, counts, blueprint_fields, registry)
       IN  \/ /\ \A vs \in values : vs # {Raised}
              /\ team_bps' = chosen_bps
              /\ written' = file_parts(scaling_team, chosen_bps, counts)
              /\ total_expectations' = total_expectations + sum(counts)
              /\ emitted' = emitted + sum(counts)
              /\ mode' = IF <<org_name, team_name>> \in DOMAIN exp_files THEN "a" ELSE "w"
              /\ exp_files' = write_file(exp_files, <<org_name, team_name>>, mode',
                                         team_parts(scaling_team, chosen_bps, counts))
              /\ IF team_i + 1 >= Len(TEAMS)
                 THEN team_i' = 0 /\ org_i' = org_i + 1
                 ELSE team_i' = team_i + 1 /\ org_i' = org_i
              /\ pc' = "round"
           \/ /\ \E vs \in values : Raised \in vs
              /\ pc' = "raised"
              /\ UNCHANGED <<org_i, team_i, team_bps, written, total_expectations, emitted,
                             exp_files, mode>>
    /\ UNCHANGED <<left_over, assigned, compareVars>>
    /\ UNCHANGED <<registry, alias_types, call, drawn, ftype, val, fileVars, bp_k, inst, fld,
                   exp_name, provided, standard, stats, target_i, results>>

\* the target is reached: its result, and the next target
FinishTarget ==
    /\ pc = "round"
    /\ total_expectations >= EXPECTATION_SCALES[target_i]
    /\ results' = Append(results, [target |-> EXPECTATION_SCALES[target_i],
                                   actual_expectations |-> total_expectations,
                                   expectation_files |-> Cardinality(DOMAIN exp_files)])
    /\ target_i' = target_i + 1
    /\ pc' = "target"
    /\ UNCHANGED <<left_over, assigned, compareVars>>
    /\ UNCHANGED <<registry, alias_types, call, drawn, ftype, val, fileVars, loopVars,
                   mode>>

\* the targets are done: generate_expectation_scaling returns results
ReturnResults ==
    /\ pc = "target"
    /\ target_i > Len(EXPECTATION_SCALES)
    /\ pc' = "scaled"
    /\ UNCHANGED <<left_over, assigned, compareVars>>
    /\ UNCHANGED <<registry, alias_types, call, drawn, ftype, val, fileVars, loopVars,
                   scalingVars>>

\* the configurations of the passes: generate_scale with no alias and with aliases
\* whose fields reach the expectations, and the scaling pass
PassProfiles ==
    {Config("plain", 1, "small", 0, 0, 0, 1, 1, 1),
     Config("typed", 1, "medium", MaxAliases, 0, 0, 1, 1, 1),
     ScalingConfig}

InitPasses ==
    /\ pc = "begin"
    /\ registry = NoRegistry
    /\ alias_types = [n \in {} |-> NoType]
    /\ call = <<0, TRUE>>
    /\ drawn = NoType
    /\ ftype = ""
    /\ val = ""
    /\ left_over = NoRegistry
    /\ assigned = {}
    /\ NoCompare
    /\ profile \in PassProfiles
    /\ stream \in StreamsOf(profile)
    /\ BeforePass

\* a pass has returned and the next begins: the locals are new, and of the module
\* state _alias_registry is as the pass left it
NextPass ==
    /\ pc \in {"done", "scaled"}
    /\ pc' = "begin"
    /\ profile' \in PassProfiles
    /\ stream' \in StreamsOf(profile')
    /\ UNCHANGED registry
    /\ left_over' = registry
    /\ assigned' = {}
    /\ UNCHANGED compareVars
    /\ alias_types' = [n \in {} |-> NoType]
    /\ call' = <<0, TRUE>>
    /\ drawn' = NoType
    /\ ftype' = ""
    /\ val' = ""
    /\ alias_names' = << >>
    /\ extendables' = << >>
    /\ req_ext_names' = << >>
    /\ prov_ext_names' = << >>
    /\ req_ext_fields' = [n \in {} |-> << >>]
    /\ blueprint_names' = << >>
    /\ blueprint_fields' = [n \in {} |-> << >>]
    /\ bp_lines' = << >>
    /\ declared' = << >>
    /\ own_fields' = [n \in {} |-> << >>]
    /\ extends_of' = [n \in {} |-> << >>]
    /\ org_i' = 0
    /\ team_i' = 0
    /\ team_bps' = << >>
    /\ bp_k' = 0
    /\ inst' = 0
    /\ fld' = 0
    /\ exp_name' = ""
    /\ provided' = << >>
    /\ standard' = << >>
    /\ written' = << >>
    /\ total_expectations' = 0
    /\ emitted' = 0
    /\ exp_files' = [path \in {} |-> << >>]
    /\ stats' = NoStats
    /\ target_i' = 0
    /\ mode' = ""
    /\ results' = << >>

NextPasses ==
    \/ NextGen
    \/ StartScaling
    \/ StartTarget
    \/ ScalingRound
    \/ FinishTarget
    \/ ReturnResults
    \/ NextPass

SpecPasses == InitPasses /\ [][NextPasses]_vars

(***************************************************************************)
(* compare.py.  A file is what is found at a path: nothing, text that is   *)
(* not JSON, or a JSON value, of which the model keeps the shape down to   *)
(* the rows of "results".  A mean is a number in thousandths of a second,  *)
(* a text or null.  What compare returns is a record: kind is "error" for  *)
(* (None, ...), "pass" for True, "regression" for False, and "raised" with *)
(* the name of the exception when an exception leaves compare.             *)
(***************************************************************************)
JsonFile(kind, rows) == [kind |-> kind, rows |-> rows]

JsonRow(kind, command, mean_kind, mean) ==
    [kind |-> kind, command |-> command, mean_kind |-> mean_kind, mean |-> mean]

Outcome(kind, exception) == [kind |-> kind, exception |-> exception]

\* the command names, in the order sorted() gives them
Commands == <<"checkout", "search">>

\* the means of the well-formed rows, in thousandths of a second
Means == {1000, 1100, 1150, 1200, 1250}

\* the thresholds, in percent
Thresholds == {10, 20, 25}

\* rows {"command": c, "mean": m} with a number m
GoodRows == {JsonRow("object", Commands[i], "number", m) : i \in 1..Len(Commands), m \in Means}

\* rows that are not that: no "command", no "mean", an array in place of the object,
\* and a mean that is a text, null or zero
BadRows ==
    {JsonRow("no_command", "", "number", 1000),
     JsonRow("no_mean", "checkout", "none", 0),
     JsonRow("array", "", "none", 0),
     JsonRow("object", "checkout", "text", 0),
     JsonRow("object", "search", "text", 0),
     JsonRow("object", "checkout", "null", 0),
     JsonRow("object", "checkout", "number", 0),
     JsonRow("object", "search", "number", 0)}

\* well-formed files: a mean for each command of a set of commands, and one with a
\* command twice
WellFormedFiles ==
    {JsonFile("rows", << >>)}
    \cup {JsonFile("rows", <<r>>) : r \in GoodRows}
    \cup {JsonFile("rows", <<r1, r2>>) :
            r1 \in {r \in GoodRows : r.command = Commands[1]},
            r2 \in {r \in GoodRows : r.command = Commands[2]}}
    \cup {JsonFile("rows", <<JsonRow("object", "checkout", "number", 1000),
                             JsonRow("object", "checkout", "number", 1150)>>)}

\* the other files: no file, no JSON, a top-level value or a "results" of another
\* shape, and a bad row alone, after a good row and before one
MalformedFiles ==
    {JsonFile(k, << >>) :
        k \in {"missing", "invalid_json", "array", "number", "no_results",
               "results_number", "results_object", "results_empty_object"}}
    \cup {JsonFile("rows", <<r>>) : r \in BadRows}
    \cup {JsonFile("rows", <<JsonRow("object", "search", "number", 1000), r>>) : r \in BadRows}
    \cup {JsonFile("rows", <<r, JsonRow("object", "search", "number", 1100)>>) : r \in BadRows}

\* dict[key] = value: a key the dict has keeps its place
put_mean(means, command, mean) ==
    IF \E i \in 1..Len(means) : means[i][1] = command
    THEN [i \in 1..Len(means) |-> IF means[i][1] = command THEN <<command, mean>> ELSE means[i]]
    ELSE Append(means, <<command, mean>>)

\* {r["command"]: r["mean"] for r in data["results"]}, row after row
RECURSIVE load_rows(_, _)
load_rows(rows, means) ==
    IF Len(rows) = 0 THEN [raised |-> "", means |-> means]
    ELSE LET r == Head(rows)
         IN  IF r.kind = "array" THEN [raised |-> "TypeError", means |-> << >>]
             ELSE IF r.kind \in {"no_command", "no_mean"}
             THEN [raised |-> "KeyError", means |-> << >>]
             ELSE load_rows(Tail(rows), put_mean(means, r.command, <<r.mean_kind, r.mean>>))

\* load_results(path): the means in the order of the dict, or the exception raised
load_results(file) ==
    IF file.kind = "missing" THEN [raised |-> "FileNotFoundError", means |-> << >>]
    ELSE IF file.kind = "invalid_json" THEN [raised |-> "JSONDecodeError", means |-> << >>]
    ELSE IF file.kind \in {"array", "number"} THEN [raised |-> "TypeError", means |-> << >>]
    ELSE IF file.kind = "no_results" THEN [raised |-> "KeyError", means |-> << >>]
    ELSE IF file.kind \in {"results_number", "results_object"}
    THEN [raised |-> "TypeError", means |-> << >>]
    ELSE IF file.kind = "results_empty_object" THEN [raised |-> "", means |-> << >>]
    ELSE load_rows(file.rows, << >>)

\* except (FileNotFoundError, json.JSONDecodeError, KeyError)
Caught == {"FileNotFoundError", "JSONDecodeError", "KeyError"}

has_name(means, name) == \E i \in 1..Len(means) : means[i][1] = name

mean_of(means, name) == means[CHOOSE i \in 1..Len(means) : means[i][1] = name][2]

\* sorted(current.items())
sorted_items(means) ==
    LET present == SelectSeq(Commands, LAMBDA c : has_name(means, c))
    IN  [i \in 1..Len(present) |-> <<present[i], mean_of(means, present[i])>>]

\* a double holds a mean exactly when the mean is a multiple of 1/8 s
is_binary_fraction(mean) == mean % 125 = 0

\* the change is computed without rounding when the means are binary fractions and
\* the baseline is a power of two
computed_exactly(baseline_mean, current_mean) ==
    /\ is_binary_fraction(baseline_mean) /\ is_binary_fraction(current_mean)
    /\ baseline_mean \in {125, 250, 500, 1000, 2000, 4000}

\* the largest power of two that is at most n: the spacing of the doubles from n on,
\* in units of 2^-52
RECURSIVE binade(_)
binade(n) == IF n < 2 THEN 1 ELSE 2 * binade(n \div 2)

\* the double nearest to mean / 1000, for a mean of 1 s up to 2 s, less that quotient,
\* in thousandths of 2^-52: 2^52 leaves 496 when divided by 1000
representation_error(mean) ==
    LET r == (mean * 496) % 1000
    IN  IF r = 0 THEN 0 ELSE IF r > 500 THEN 1000 - r ELSE 0 - r

\* change_pct > threshold_pct for change_pct = ((current - baseline) / baseline) * 100 in
\* doubles, the baseline positive: the outcomes the comparison can have.  A change
\* off the threshold in exact arithmetic is computed to the same side of it.  A change
\* that is the threshold in exact arithmetic is computed as the threshold when no
\* operation rounds; from a baseline of 1 s the difference and the quotient are exact,
\* the product is the threshold plus a hundred times the error of the current mean,
\* and it rounds to the threshold unless that is over half the spacing.  Elsewhere the
\* rounding can go to either side.
exceeds(baseline_mean, current_mean, threshold) ==
    IF (current_mean - baseline_mean) * 100 # threshold * baseline_mean
    THEN {(current_mean - baseline_mean) * 100 > threshold * baseline_mean}
    ELSE IF computed_exactly(baseline_mean, current_mean) THEN {FALSE}
    ELSE IF baseline_mean = 1000 /\ current_mean < 2000 /\ threshold >= 1
    THEN IF representation_error(current_mean) = 5 * binade(threshold)
         THEN {TRUE, FALSE}
         ELSE {representation_error(current_mean) > 5 * binade(threshold)}
    ELSE {TRUE, FALSE}

\* the loop over sorted(current.items()): the numbers of regressions it can end with,
\* or the exception that leaves it
RECURSIVE scan_current(_, _, _, _)
scan_current(items, baseline, threshold, regressions) ==
    IF Len(items) = 0 THEN {[raised |-> "", regressions |-> regressions]}
    ELSE LET name == Head(items)[1]
             cur  == Head(items)[2]
         IN  IF ~has_name(baseline, name)
             THEN IF cur[1] = "number"
                  THEN scan_current(Tail(items), baseline, threshold, regressions)
                  ELSE {[raised |-> IF cur[1] = "text" THEN "ValueError" ELSE "TypeError",
                         regressions |-> regressions]}
             ELSE LET base == mean_of(baseline, name)
                  IN  IF cur[1] # "number" \/ base[1] # "number"
                      THEN {[raised |-> "TypeError", regressions |-> regressions]}
                      ELSE IF base[2] = 0
                      THEN {[raised |-> "ZeroDivisionError", regressions |-> regressions]}
                      ELSE UNION {scan_current(Tail(items), baseline, threshold,
                                               IF over THEN regressions + 1 ELSE regressions) :
                                     over \in exceeds(base[2], cur[2], threshold)}

\* the loop over the removed benchmarks: the exception that leaves it, if any
RECURSIVE scan_removed(_, _)
scan_removed(baseline, current) ==
    IF Len(baseline) = 0 THEN ""
    ELSE LET name == Head(baseline)[1]
             base == Head(baseline)[2]
         IN  IF has_name(current, name) \/ base[1] = "number"
             THEN scan_removed(Tail(baseline), current)
             ELSE IF base[1] = "text" THEN "ValueError" ELSE "TypeError"

\* compare(baseline_path, current_path, threshold_pct): what it can return or raise
compare(baseline, current, threshold) ==
    LET b == load_results(baseline)
        c == load_results(current)
    IN  IF b.raised # ""
        THEN {IF b.raised \in Caught THEN Outcome("error", b.raised)
              ELSE Outcome("raised", b.raised)}
        ELSE IF c.raised # ""
        THEN {IF c.raised \in Caught THEN Outcome("error", c.raised)
              ELSE Outcome("raised", c.raised)}
        ELSE {IF r.raised # "" THEN Outcome("raised", r.raised)
              ELSE IF scan_removed(b.means, c.means) # ""
              THEN Outcome("raised", scan_removed(b.means, c.means))
              ELSE IF r.regressions > 0 THEN Outcome("regression", "")
              ELSE Outcome("pass", "") :
                 r \in scan_current(sorted_items(c.means), b.means, threshold, 0)}

\* main: sys.exit(2) for None, sys.exit(0 if passed else 1); the interpreter exits
\* with 1 when an exception is not caught
exit_of(outcome) ==
    IF outcome.kind = "error" THEN 2
    ELSE IF outcome.kind = "pass" THEN 0
    ELSE 1

InitCompare ==
    /\ pc = "compare"
    /\ registry = NoRegistry
    /\ alias_types = [n \in {} |-> NoType]
    /\ call = <<0, TRUE>>
    /\ drawn = NoType
    /\ ftype = ""
    /\ val = ""
    /\ left_over = NoRegistry
    /\ assigned = {}
    /\ profile = Config("", 0, "", 0, 0, 0, 0, 0, 0)
    /\ stream = "any"
    /\ BeforePass
    /\ baseline_file \in WellFormedFiles \cup MalformedFiles
    /\ current_file \in WellFormedFiles \cup MalformedFiles
    /\ threshold_pct \in Thresholds
    /\ passed = Outcome("none", "")
    /\ exit_status = -1

\* passed, lines = compare(args.baseline, args.current, args.threshold)
Compare ==
    /\ pc = "compare"
    /\ passed' \in compare(baseline_file, current_file, threshold_pct)
    /\ pc' = "compared"
    /\ UNCHANGED <<registry, alias_types, call, drawn, ftype, val, fileVars, loopVars,
                   scalingVars, left_over, assigned, baseline_file, current_file, threshold_pct,
                   exit_status>>

\* the process exits
Exit ==
    /\ pc = "compared"
    /\ exit_status' = exit_of(passed)
    /\ pc' = "exited"
    /\ UNCHANGED <<registry, alias_types, call, drawn, ftype, val, fileVars, loopVars,
                   scalingVars, left_over, assigned, baseline_file, current_file, threshold_pct,
                   passed>>

NextCompare == Compare \/ Exit

SpecCompare == InitCompare /\ [][NextCompare]_vars

(***************************************************************************)
(* The accepted domain of a type, read from the draws that made the type   *)
(* and from the text of the literal alone.                                 *)
(***************************************************************************)
AllDigits(v) == Len(v) >= 1 /\ \A i \in 1..Len(v) : Ch(v, i) \in DigitSet

IsStringLit(v) ==
    /\ Len(v) >= 2
    /\ Ch(v, 1) = "\"" /\ Ch(v, Len(v)) = "\""
    /\ \A i \in 2..(Len(v) - 1) : Ch(v, i) # "\""

IsIntegerLit(v) == AllDigits(v)

\* digits, a dot, one or two digits
IsFloatLit(v) ==
    /\ Cardinality(Occurrences(v, ".")) = 1
    /\ LET i == Min(Occurrences(v, "."))
       IN  /\ AllDigits(SubSeq(v, 1, i - 1))
           /\ AllDigits(SubSeq(v, i + 1, Len(v)))
           /\ Len(v) - i <= 2

\* the number a literal writes, in hundredths
Hundredths(v) ==
    IF Occurrences(v, ".") = {}
    THEN 100 * digits_val(v)
    ELSE LET i == Min(Occurrences(v, "."))
         IN  100 * digits_val(SubSeq(v, 1, i - 1))
             + digits_val(SubSeq(SubSeq(v, i + 1, Len(v)) \o "00", 1, 2))

ValidPrimitive(v, kind) ==
    IF kind = "String" THEN IsStringLit(v)
    ELSE IF kind = "Integer" THEN IsIntegerLit(v)
    ELSE IF kind = "Float" THEN IsFloatLit(v)
    ELSE IF kind = "Boolean" THEN v \in {"true", "false"}
    ELSE FALSE

\* the entries of a List or Dict literal whose entries hold no ", "
Entries(v, open, close) ==
    IF startswith(v, open) /\ Len(v) >= Len(open) + Len(close)
       /\ SubSeq(v, Len(v) - Len(close) + 1, Len(v)) = close
    THEN split(SubSeq(v, Len(open) + 1, Len(v) - Len(close)), ", ")
    ELSE << >>

\* the bounds of a Range, in hundredths
LowOf(ty) == IF ty.base = "Float" THEN ty.lo ELSE 100 * ty.lo

HighOf(ty) == IF ty.base = "Float" THEN ty.hi ELSE 100 * ty.hi

ValidFor(v, ty) ==
    IF ty.kind = "Primitive" THEN ValidPrimitive(v, ty.base)
    ELSE IF ty.kind = "OneOf" /\ ty.base = "String"
    THEN \E i \in 1..Len(ty.svals) : v = quote(ty.svals[i])
    ELSE IF ty.kind = "OneOf"
    THEN \E i \in 1..Len(ty.ivals) : v = str_int(ty.ivals[i])
    ELSE IF ty.kind = "Range"
    THEN /\ ValidPrimitive(v, ty.base)
         /\ LowOf(ty) <= Hundredths(v) /\ Hundredths(v) <= HighOf(ty)
    ELSE IF ty.kind = "List"
    THEN LET es == Entries(v, "[", "]")
         IN  /\ Len(es) \in 1..4
             /\ \A i \in 1..Len(es) : ValidPrimitive(es[i], ty.inner)
    ELSE IF ty.kind = "Dict"
    THEN LET es == Entries(v, "{ ", " }")
         IN  /\ Len(es) \in 1..3
             /\ \A i \in 1..Len(es) :
                  /\ Len(split(es[i], ": ")) = 2
                  /\ Len(split(es[i], ": ")[1]) >= 1
                  /\ ValidPrimitive(split(es[i], ": ")[2], ty.inner)
             /\ \A i, j \in 1..Len(es) :
                  i # j => split(es[i], ": ")[1] # split(es[j], ": ")[1]
    ELSE IF ty.kind \in {"Optional", "Defaulted"}
    THEN ValidPrimitive(v, ty.inner)
    ELSE FALSE

\* the type a generated field stands for: an alias stands for what it was declared as
Expected == IF drawn.kind = "Alias" THEN alias_types[drawn.inner] ELSE drawn

\* value_for_type has returned for a type the generator made
Synthesized == pc = "valued" /\ drawn.kind \notin {"None", "External"}

(***************************************************************************)
(* C1, as stated: for every type text random_type can return and every     *)
(* alias gen_type_aliases registers, value_for_type returns a literal in   *)
(* the type's accepted domain and never one of the literals                *)
(* "fallback_value" and 50.  The code violates the last part: 50 is also   *)
(* an Integer that random.randint draws.                                   *)
(***************************************************************************)
C1_NeverFallbackLiteral ==
    Synthesized => /\ ValidFor(val, Expected)
                   /\ val \notin {quote("fallback_value"), "50"}

(***************************************************************************)
(* C1, amended: the returned literal is in the type's accepted domain and  *)
(* is never "fallback_value"; the text 50 is returned only as a valid      *)
(* value of a type whose values are Integers.                              *)
(***************************************************************************)
C1_RoundTripSound ==
    Synthesized => /\ ValidFor(val, Expected)
                   /\ val # quote("fallback_value")
                   /\ val = "50" => "Integer" \in {Expected.base, Expected.inner}

C1_Witness ==
    /\ Synthesized
    /\ drawn.kind = "Dict"
    /\ Len(Entries(val, "{ ", " }")) = 2

(***************************************************************************)
(* C2: for every OneOf type (String or Integer, made by oneof_type or      *)
(* registered as an alias) the elements value_for_type recovers from the   *)
(* text are exactly the declared values, and the returned value is one of  *)
(* them.                                                                   *)
(***************************************************************************)
C2_OneOfExact ==
    Synthesized /\ Expected.kind = "OneOf" =>
        IF Expected.base = "String"
        THEN /\ oneof_string_values(Expected.text) = Expected.svals
             /\ \E i \in 1..Len(Expected.svals) : val = quote(Expected.svals[i])
        ELSE /\ oneof_integer_values(Expected.text) =
                  [i \in 1..Len(Expected.ivals) |-> str_int(Expected.ivals[i])]
             /\ \E i \in 1..Len(Expected.ivals) : val = str_int(Expected.ivals[i])

\* the last of five declared values is returned
C2_Witness ==
    /\ Synthesized
    /\ Expected.kind = "OneOf"
    /\ Len(Expected.svals) = 5
    /\ val = quote(Expected.svals[5])

(***************************************************************************)
(* C3: for every Range type (made by range_type or registered as a Float   *)
(* range alias) the regular expression recovers exactly the bounds that    *)
(* were drawn, and the returned value v satisfies low <= v <= high.        *)
(***************************************************************************)
C3_RangeWithinBounds ==
    Synthesized /\ Expected.kind = "Range" =>
        LET match == range_search(Expected.text)
        IN  /\ match # << >>
            /\ Hundredths(match[1]) = LowOf(Expected)
            /\ Hundredths(match[2]) = HighOf(Expected)
            /\ match[1] = (IF Expected.base = "Float" THEN str_float(Expected.lo)
                           ELSE str_int(Expected.lo))
            /\ match[2] = (IF Expected.base = "Float" THEN str_float(Expected.hi)
                           ELSE str_int(Expected.hi))
            /\ ValidPrimitive(val, Expected.base)
            /\ LowOf(Expected) <= Hundredths(val)
            /\ Hundredths(val) <= HighOf(Expected)

\* a Float range with a fractional lower bound, and a value inside it
C3_Witness ==
    /\ Synthesized
    /\ Expected.kind = "Range" /\ Expected.base = "Float"
    /\ Expected.lo = 1230
    /\ Hundredths(val) = 1231

(***************************************************************************)
(* C4, as stated: the value synthesized for a Range lies strictly inside   *)
(* the interval, low < v < high.  The code draws inclusively.              *)
(***************************************************************************)
C4_StrictlyInside ==
    Synthesized /\ Expected.kind = "Range" =>
        LowOf(Expected) < Hundredths(val) /\ Hundredths(val) < HighOf(Expected)

(***************************************************************************)
(* C4, amended: the value synthesized for a Range lies in the closed       *)
(* interval, low <= v <= high, and both ends are values the synthesizer    *)
(* returns.                                                                *)
(***************************************************************************)
C4_ClosedInterval ==
    Synthesized /\ Expected.kind = "Range" =>
        LowOf(Expected) <= Hundredths(val) /\ Hundredths(val) <= HighOf(Expected)

\* the upper end of an Integer range is returned
C4_Witness ==
    /\ Synthesized
    /\ Expected.kind = "Range" /\ Expected.base = "Integer"
    /\ Hundredths(val) = HighOf(Expected)

(***************************************************************************)
(* The blueprints of a pass, read from what was drawn for them.  What is    *)
(* recorded of a blueprint does not change once it is built, so the        *)
(* properties of the blueprints are stated of the states of the loop that  *)
(* builds them.                                                            *)
(***************************************************************************)
Built == 1..Len(blueprint_names)

Resolved(i) == blueprint_fields[blueprint_names[i]]

Own(i) == own_fields[blueprint_names[i]]

Extends(i) == extends_of[blueprint_names[i]]

Names(seq) == {seq[j] : j \in 1..Len(seq)}

\* the Provides extendables a blueprint extends
ProvidesExtended(i) == Names(Extends(i)) \cap Names(prov_ext_names)

\* the direct vendor lines of the text of a blueprint
VendorLines(i) == Cardinality(Occurrences(bp_lines[i], "\n      vendor: "))

\* the field names of the Requires extendables named in an extends list, in the
\* order the extendables were declared
RECURSIVE DeclaredNames(_, _)
DeclaredNames(k, extends) ==
    IF k > Len(req_ext_names) THEN << >>
    ELSE (IF req_ext_names[k] \in Names(extends)
          THEN [j \in 1..Len(declared[k]) |-> declared[k][j][1]] ELSE << >>)
         \o DeclaredNames(k + 1, extends)

\* the number of blueprints of every team after the team <<o, t>>, that team included
RECURSIVE AssignedFrom(_, _)
AssignedFrom(o, t) ==
    IF o >= profile.num_orgs THEN 0
    ELSE Cardinality(Names(bps_for_team(blueprint_names, profile.num_orgs,
                                        profile.teams_per_org, o, t)))
         + (IF t + 1 < profile.teams_per_org
            THEN AssignedFrom(o, t + 1) ELSE AssignedFrom(o + 1, 0))

(***************************************************************************)
(* C5, as stated: the first two entries of the resolved field list of      *)
(* every blueprint have type String.  The small tier can draw one own      *)
(* field, and the second entry is then the first field of an extended      *)
(* Requires extendable, of any simple type.                                *)
(***************************************************************************)
C5_FirstTwoResolvedString ==
    pc = "blueprints" => \A i \in Built : \A j \in 1..2 :
        j <= Len(Resolved(i)) => Resolved(i)[j][2] = "String"

(***************************************************************************)
(* C5, amended: the resolved field list of every blueprint begins with its *)
(* own fields, and the first two of these (the only one, when one is       *)
(* drawn) have type String; every tier but small draws at least two own    *)
(* fields, so its first two resolved fields are String.                    *)
(***************************************************************************)
C5_FirstTwoOwnString ==
    pc = "blueprints" => \A i \in Built :
        /\ \A j \in 1..2 :
              j <= Len(Own(i)) => Resolved(i)[j] = Own(i)[j] /\ Resolved(i)[j][2] = "String"
        /\ profile.complexity # "small" =>
              /\ Len(Own(i)) >= 2
              /\ Resolved(i)[1][2] = "String" /\ Resolved(i)[2][2] = "String"

C5_Witness ==
    \E i \in Built :
        /\ Len(Own(i)) >= 2
        /\ Len(Resolved(i)) > Len(Own(i))
        /\ Resolved(i)[Len(Own(i)) + 1][2] # "String"

(***************************************************************************)
(* C6, as stated: a blueprint that extends a Provides extendable has no    *)
(* direct vendor line, one that extends none has exactly one, and so every *)
(* blueprint has exactly one source of the vendor value.  A blueprint can  *)
(* extend two Provides extendables, each a source of the value.            *)
(***************************************************************************)
C6_ExactlyOneSource ==
    pc = "blueprints" => \A i \in Built :
        /\ ProvidesExtended(i) # {} => VendorLines(i) = 0
        /\ ProvidesExtended(i) = {} => VendorLines(i) = 1
        /\ VendorLines(i) + Cardinality(ProvidesExtended(i)) = 1

(***************************************************************************)
(* C6, amended: a blueprint that extends a Provides extendable has no      *)
(* direct vendor line and one that extends none has exactly one; the       *)
(* vendor value has one source or, when two Provides extendables are       *)
(* extended, two, and a direct line is never one of two.                   *)
(***************************************************************************)
C6_NoDirectVendorWhenExtended ==
    pc = "blueprints" => \A i \in Built :
        /\ ProvidesExtended(i) # {} => VendorLines(i) = 0
        /\ ProvidesExtended(i) = {} => VendorLines(i) = 1
        /\ VendorLines(i) + Cardinality(ProvidesExtended(i)) \in {1, 2}

C6_Witness ==
    \E i \in Built :
        /\ Cardinality(ProvidesExtended(i)) = 2
        /\ VendorLines(i) = 0

\* the number of expectations in the files paths of the corpus
RECURSIVE InFiles(_)
InFiles(paths) ==
    IF paths = {} THEN 0
    ELSE LET path == CHOOSE q \in paths : TRUE
         IN  sum([k \in 1..Len(exp_files[path]) |-> exp_files[path][k].count])
             + InFiles(paths \ {path})

\* the number of expectation instances the corpus holds
InCorpus == InFiles(DOMAIN exp_files)

\* no two (org_i, team_i) of the profile share a directory
DirectoriesApart == profile.num_orgs <= Len(ORGS) /\ profile.teams_per_org <= Len(TEAMS)

(***************************************************************************)
(* C8, as stated: the small profile yields 2 blueprint definitions and 4   *)
(* expectation instances; for every profile the number of expectation      *)
(* instances of the corpus is expectations_per_team_blueprint times the    *)
(* sum over the teams of the number of distinct blueprints of the team,    *)
(* and is the reported expectations_total.  With more organizations than   *)
(* ORGS has names a later team file replaces an earlier one, and the       *)
(* corpus holds fewer instances than are reported.                         *)
(***************************************************************************)
C8_CorpusCount ==
    pc = "done" =>
        /\ InCorpus = profile.expectations_per_team_blueprint * AssignedFrom(0, 0)
        /\ stats.expectations_total = InCorpus
        /\ profile.scale = "small" =>
              /\ Len(bp_lines) = 2 /\ stats.blueprints = 2
              /\ InCorpus = 4

(***************************************************************************)
(* C8: the small profile yields 2 blueprint definitions and 4 expectation  *)
(* instances in the corpus; for every profile the number of expectation    *)
(* instances generated is expectations_per_team_blueprint times the sum    *)
(* over the teams of the number of distinct blueprints of the team, and is *)
(* the reported expectations_total; the corpus holds that many instances   *)
(* when no two teams share a directory (at most as many organizations as   *)
(* ORGS has names and teams of an organization as TEAMS has), and fewer    *)
(* otherwise.                                                              *)
(***************************************************************************)
C8_EndToEndCount ==
    pc = "done" =>
        /\ emitted = profile.expectations_per_team_blueprint * AssignedFrom(0, 0)
        /\ stats.expectations_total = emitted
        /\ IF DirectoriesApart THEN InCorpus = emitted ELSE InCorpus < emitted
        /\ profile.scale = "small" =>
              /\ Len(bp_lines) = 2 /\ stats.blueprints = 2
              /\ InCorpus = 4

C8_Witness ==
    /\ pc = "done"
    /\ profile.scale = "small"
    /\ InCorpus = 4
    /\ stats.expectations_total = 4
    /\ Cardinality(DOMAIN exp_files) = 1

(***************************************************************************)
(* C9, as stated: every expectation emitted for a blueprint provides one   *)
(* value for each of the own fields of the blueprint, then for each field  *)
(* of the Requires extendables its extends list names, and for nothing     *)
(* else but the threshold and the window.  The code finds an extendable    *)
(* extended when its name occurs anywhere in the text of the item, so a    *)
(* blueprint that extends _req_10 is also given the fields of _req_1.      *)
(***************************************************************************)
C9_ProvidesResolvedFields ==
    pc = "emitted" =>
        LET bp == team_bps[bp_k]
        IN  /\ provided = [j \in 1..Len(own_fields[bp]) |-> own_fields[bp][j][1]]
                          \o DeclaredNames(1, extends_of[bp])
            /\ Len(standard) = 2

(***************************************************************************)
(* C11: in every pass, after whatever passes came before, while the        *)
(* expectations of the pass are synthesized the registry holds exactly the *)
(* aliases the pass declared, _type_0 .. _type_{n-1}, each with the        *)
(* underlying type drawn for it in the pass, and the type of every field   *)
(* that names an alias is in the registry.                                 *)
(***************************************************************************)
C11_RegistryOfThePass ==
    pc \in {"fields", "emitted", "round"} =>
        /\ alias_names = [i \in 1..profile.num_aliases |-> alias_name(i - 1)]
        /\ DOMAIN registry = Names(alias_names)
        /\ DOMAIN alias_types = Names(alias_names)
        /\ \A n \in DOMAIN registry : registry[n] = alias_types[n].text
        /\ \A b \in DOMAIN blueprint_fields : \A j \in 1..Len(blueprint_fields[b]) :
              startswith(blueprint_fields[b][j][2], "_") =>
                  blueprint_fields[b][j][2] \in DOMAIN registry

\* a pass that declares no alias completes an expectation after a pass that left an
\* alias in the registry
C11_Witness ==
    /\ pc = "emitted"
    /\ left_over # NoRegistry
    /\ profile.num_aliases = 0
    /\ registry = NoRegistry

(***************************************************************************)
(* C12: the expectations generate_scale writes for a team have names that  *)
(* differ from one another; they are the names                             *)
(* {team}_{blueprint}_{index} of the blueprints of the team, blueprint     *)
(* after blueprint, each blueprint once, with the indices 0..count-1 in    *)
(* order; the file of the team is complete with count names for each of    *)
(* its blueprints.                                                         *)
(***************************************************************************)
C12_NamesUniquePerTeam ==
    pc \in {"fields", "emitted"} =>
        LET count == profile.expectations_per_team_blueprint
        IN  /\ \A a, b \in 1..Len(written) : a # b => written[a] # written[b]
            /\ \A a, b \in 1..Len(team_bps) : a # b => team_bps[a] # team_bps[b]
            /\ \A a \in 1..Len(written) :
                  written[a] = expectation_name(team_name,
                                                team_bps[((a - 1) \div count) + 1],
                                                (a - 1) % count)
            /\ Len(written) = (bp_k - 1) * count + inst + (IF pc = "emitted" THEN 1 ELSE 0)
            /\ Len(written) <= Len(team_bps) * count

\* the file of a team with two blueprints and two expectations for each is complete
C12_Witness ==
    /\ pc = "emitted"
    /\ Len(team_bps) = 2
    /\ profile.expectations_per_team_blueprint = 2
    /\ Len(written) = 4

(***************************************************************************)
(* The verdict the arithmetic of the reals gives.                          *)
(***************************************************************************)
\* some command of both files has a change over the threshold, the change the
\* quotient of integers it is for means given in thousandths
SomeChangeOver(baseline, current, threshold) ==
    LET b == load_results(baseline).means
        c == load_results(current).means
    IN  \E i \in 1..Len(b) : \E j \in 1..Len(c) :
            /\ b[i][1] = c[j][1]
            /\ (c[j][2][2] - b[i][2][2]) * 100 > threshold * b[i][2][2]

\* a file compare cannot use as a baseline: every malformed file
MalformedBaseline(file) == file \in MalformedFiles

\* a file compare cannot use as the current results: the malformed files but for
\* those with a mean of zero, which is a mean there
MalformedCurrent(file) ==
    /\ file \in MalformedFiles
    /\ \A i \in 1..Len(file.rows) :
          ~(file.rows[i].kind = "object" /\ file.rows[i].mean_kind = "number"
            /\ file.rows[i].mean = 0)

(***************************************************************************)
(* C13, as stated: for well-formed inputs compare returns failure, and the *)
(* process exits with 1, exactly when some command of both files has a     *)
(* change (current - baseline) / baseline * 100 strictly greater than the  *)
(* threshold, and returns pass, exit status 0, otherwise; a change equal   *)
(* to the threshold and a command of one file only never cause failure.    *)
(* The code computes the change in doubles: from 1.000 to 1.100 it is      *)
(* 10.000000000000009, a failure at threshold 10.                          *)
(***************************************************************************)
C13_FailsExactlyWhenOver ==
    /\ pc = "exited"
    /\ baseline_file \in WellFormedFiles
    /\ current_file \in WellFormedFiles
    => IF SomeChangeOver(baseline_file, current_file, threshold_pct)
       THEN passed.kind = "regression" /\ exit_status = 1
       ELSE passed.kind = "pass" /\ exit_status = 0

(***************************************************************************)
(* C14, as stated: for every malformed or missing input compare returns    *)
(* the error outcome, the process exits with 2, no exception leaves        *)
(* compare and no verdict is returned; and every run ends in one of the    *)
(* three outcomes error, regression and pass.  The code catches three      *)
(* exceptions: a baseline mean of zero raises ZeroDivisionError, a wrong   *)
(* container or a mean that is no number raises TypeError or ValueError,   *)
(* and a "results" that is an empty object passes.                         *)
(***************************************************************************)
C14_MalformedIsError ==
    pc = "exited" =>
        /\ passed.kind \in {"error", "regression", "pass"}
        /\ MalformedBaseline(baseline_file) \/ MalformedCurrent(current_file) =>
              passed.kind = "error" /\ exit_status = 2

(***************************************************************************)
(* The structure of a type, read from its text.                            *)
(***************************************************************************)
\* the openings of the types that hold a type
Openings == {"List(", "Dict(String, ", "Optional(", "Defaulted("}

\* the levels of the tree of a type: one, and one more for each opening
Levels(text) ==
    1 + Cardinality(UNION {{<<o, i>> : i \in Occurrences(text, o)} : o \in Openings})

\* the type a type holds, for a text with one of the openings
HeldType(text) ==
    IF startswith(text, "Defaulted(")
    THEN SubSeq(text, 11, Min(Occurrences(text, ", ")) - 1)
    ELSE LET o == CHOOSE o \in Openings : startswith(text, o)
         IN  SubSeq(text, Len(o) + 1, Len(text) - 1)

\* the default literal of a Defaulted
DefaultLiteral(text) == SubSeq(text, Min(Occurrences(text, ", ")) + 2, Len(text) - 1)

IsPrimitive(text) == \E i \in 1..Len(SimpleTypes) : text = SimpleTypes[i]

(***************************************************************************)
(* C15: a call of random_type with a depth over 2 or with allow_complex    *)
(* false returns a primitive; every type random_type returns is a          *)
(* primitive, a refinement of one, or a List, Dict, Optional or Defaulted  *)
(* that holds a primitive, so its tree has at most 3 levels; and the       *)
(* default literal of a Defaulted is a literal of the primitive it holds.  *)
(* Every call returns: a nested call is made one level deeper with         *)
(* allow_complex false and returns at the first test.                      *)
(***************************************************************************)
C15_NestingBound ==
    pc = "typed" /\ drawn.kind \notin {"Alias", "External"} =>
        /\ call[1] > 2 \/ ~call[2] => drawn.kind = "Primitive" /\ IsPrimitive(ftype)
        /\ drawn.kind = "Primitive" <=> IsPrimitive(ftype)
        /\ (\E o \in Openings : startswith(ftype, o))
              <=> drawn.kind \in {"List", "Dict", "Optional", "Defaulted"}
        /\ (\E o \in Openings : startswith(ftype, o)) =>
              /\ IsPrimitive(HeldType(ftype))
              /\ HeldType(ftype) = drawn.inner
              /\ Levels(ftype) = 2
        /\ Levels(ftype) <= 3
        /\ startswith(ftype, "Defaulted(") =>
              /\ drawn.kind = "Defaulted"
              /\ ValidPrimitive(DefaultLiteral(ftype), HeldType(ftype))
              /\ DefaultLiteral(ftype) =
                    (IF HeldType(ftype) = "String" THEN "\"default\""
                     ELSE IF HeldType(ftype) = "Integer" THEN "0"
                     ELSE IF HeldType(ftype) = "Float" THEN "0.0"
                     ELSE "false")

\* at depth 2 a Defaulted of a Float is returned
C15_Witness ==
    /\ pc = "typed"
    /\ call = <<2, TRUE>>
    /\ drawn.kind = "Defaulted"
    /\ ftype = "Defaulted(Float, 0.0)"

\* the blueprints with an expectation in the corpus
WithExpectations ==
    UNION {{exp_files[path][k].blueprint :
               k \in {j \in 1..Len(exp_files[path]) : exp_files[path][j].count > 0}} :
           path \in DOMAIN exp_files}

(***************************************************************************)
(* C16, as stated: for at least one blueprint, one organization and one    *)
(* team in each organization, bps_for_team holds at least one blueprint    *)
(* for every (org_i, team_i), every blueprint is held by bps_for_team for  *)
(* some (org_i, team_i), and when the loops are over no blueprint is       *)
(* without an expectation in the corpus.  A profile of no expectation for  *)
(* a blueprint of a team leaves every blueprint without, and with more     *)
(* organizations than ORGS has names a later team file replaces an earlier *)
(* one and the blueprints only the earlier held are left without.          *)
(***************************************************************************)
C16_NoBlueprintLeftOut ==
    /\ pc = "fields" =>
          /\ team_bps # << >>
          /\ Names(team_bps) \subseteq Names(blueprint_names)
          /\ Names(team_bps) \subseteq assigned
    /\ pc = "done" =>
          /\ assigned = Names(blueprint_names)
          /\ Cardinality(assigned) = profile.num_blueprints
          /\ WithExpectations = Names(blueprint_names)

(***************************************************************************)
(* C16: for at least one blueprint, one organization and one team in each  *)
(* organization, bps_for_team holds at least one blueprint for every       *)
(* (org_i, team_i) of the loops of generate_scale, and when the loops are  *)
(* over every blueprint has been held by bps_for_team for some (org_i,     *)
(* team_i); every blueprint then has an expectation in the corpus when the *)
(* profile asks at least one expectation for a blueprint of a team and no  *)
(* two teams share a directory, and none has when it asks for none.        *)
(***************************************************************************)
C16_RotationCovers ==
    /\ pc = "fields" =>
          /\ team_bps # << >>
          /\ Names(team_bps) \subseteq Names(blueprint_names)
          /\ Names(team_bps) \subseteq assigned
    /\ pc = "done" =>
          /\ assigned = Names(blueprint_names)
          /\ Cardinality(assigned) = profile.num_blueprints
          /\ WithExpectations \subseteq Names(blueprint_names)
          /\ profile.expectations_per_team_blueprint >= 1 /\ DirectoriesApart =>
                WithExpectations = Names(blueprint_names)
          /\ profile.expectations_per_team_blueprint = 0 => WithExpectations = {}

\* five blueprints over two organizations of two teams: the share of a team is two,
\* and the four team files hold an expectation of each blueprint
C16_Witness ==
    /\ pc = "done"
    /\ profile.num_blueprints = 5 /\ profile.num_orgs = 2 /\ profile.teams_per_org = 2
    /\ profile.expectations_per_team_blueprint = 1
    /\ Len(team_bps) = 2
    /\ Cardinality(assigned) = 5
    /\ Cardinality(WithExpectations) = 5
    /\ Cardinality(DOMAIN exp_files) = 4

(***************************************************************************)
(* C10, as stated: for every type text that is not a well-formed           *)
(* descriptor value_for_type returns the one fixed fallback literal and    *)
(* never raises.  Stated here is the part every reading of the claim       *)
(* includes, that the call never raises: the code raises on reversed       *)
(* Integer bounds and on bounds float() cannot read.                       *)
(***************************************************************************)
C10_NeverRaises ==
    pc = "valued" /\ drawn.kind = "External" => val # Raised

====
